---- MODULE Spec2Model ----
(***************************************************************************)
(* A model of django-haul's import engine: ImportContainer.import_objects  *)
(* (haul/containers/_import.py) together with the relink actions of        *)
(* haul/policy.py.  One import session is a run of the state machine; the  *)
(* container contents, the exporter registry, the record store and the     *)
(* policy are the inputs drawn in Init.                                     *)
(***************************************************************************)
EXTENDS Integers, Sequences, FiniteSets, TLC

\* ---------------------------------------------------------------- bounds
\* records in a container
NumRecs == 3
\* read() calls on one container
MaxReads == 2
\* object documents in one stream of the read sessions
MaxDocs == 2
\* references in a container (all records together)
MaxRefs == 2
\* target ids of one collection-valued reference
MaxIds == 2

\* the markers the topological sorter keeps in a node's predecessor count
\* once the node was passed out, and once it was marked done
NODE_OUT == 0 - 1
NODE_DONE == 0 - 2

\* ------------------------------------------------------------ sequences
Range(s) == {s[i] : i \in 1..Len(s)}

\* index of the first occurrence of x in s, 0 when absent
IndexOf(s, x) ==
    IF x \in Range(s) THEN CHOOSE i \in 1..Len(s) : s[i] = x /\ \A j \in 1..(i - 1) : s[j] # x
    ELSE 0

\* list.remove(x): drops the first occurrence of x
RemoveFirst(s, x) ==
    LET k == IndexOf(s, x) IN
    IF k = 0 THEN s ELSE [i \in 1..(Len(s) - 1) |-> IF i < k THEN s[i] ELSE s[i + 1]]

RECURSIVE Dedup(_)
\* the distinct elements of s in order of first occurrence (dict key order)
Dedup(s) ==
    IF s = <<>> THEN <<>>
    ELSE LET r == Dedup([i \in 1..(Len(s) - 1) |-> s[i]]) IN
         IF s[Len(s)] \in Range(r) THEN r ELSE Append(r, s[Len(s)])

Min(a, b) == IF a < b THEN a ELSE b

\* ----------------------------------------------------------- data model
\* types.ID: (kind, pk)
ID(k, p) == [kind |-> k, pk |-> p]

\* types.Ref; "many" is the schema's many_to_many flag of the owning field
Ref(ids, f, nullable, weak, many) ==
    [ids |-> ids, field |-> f, nullable |-> nullable, weak |-> weak, many |-> many]

\* a model instance of the record store; NoInst stands where there is none
Inst(k, p, n) == [kind |-> k, pk |-> p, name |-> n, isbn |-> 0]
\* an instance with both of its plain fields given
Inst2(k, p, n, b) == [kind |-> k, pk |-> p, name |-> n, isbn |-> b]
NoInst == Inst("", 0, 0)

\* what an action yields for one record: an instance, None or False
Some(i) == [t |-> "inst", v |-> i]
None == [t |-> "none", v |-> NoInst]
False == [t |-> "false", v |-> NoInst]

\* values of a typed relation field: the Ref the codec left there, or what
\* reference resolution wrote over it
FRef == [t |-> "ref", v |-> <<>>]
FNull == [t |-> "null", v |-> <<>>]
FOne(x) == [t |-> "one", v |-> <<x>>]
FMany(xs) == [t |-> "many", v |-> xs]

FieldNames == <<"f1", "f2", "f3", "f4">>

\* relink actions are chains: the action followed by its fallbacks
\* ow is overwrite_fields, the empty set for the classes without it
Act(type) == [type |-> type, pk |-> 0, ow |-> {}]
Create == <<Act("Create")>>
Discard == <<Act("Discard")>>
LinkToInstance(pk) == <<[type |-> "LinkToInstance", pk |-> pk, ow |-> {}]>>
LinkByFields == <<Act("LinkByFields")>>
LinkByPK == <<Act("LinkByPK")>>
LogToConsole == <<Act("LogToConsole")>>
WithFallback(a, fb) == a \o fb
\* the action a constructed with overwrite_fields = fields
Overwriting(a, fields) == <<[a[1] EXCEPT !.ow = fields]>> \o Tail(a)
\* overwrite_fields == ('__all__',)
AllFields == {"__all__"}

\* one call of a policy method, as the policy sees it
Hook(name, id, instance, key) == [hook |-> name, id |-> id, instance |-> instance, key |-> key]

\* ------------------------------------------------------------ variables
VARIABLES
    exp,              \* the ExportContainer and what was written from it
    handles,          \* the opening and closing of archives and streams and the
                      \* calls of process_attachment between them, in order
    container,        \* the streams handed to read() so far
    open,             \* self.__open
    ctx,              \* the caller is inside a read() context
    read_err,         \* the exception the last read() raised, "" when none
    attachment_handler, \* the policy implements process_attachment
    hooks,            \* the calls of policy methods made so far, in order
    exporters,        \* kinds with a registered exporter (BaseContainer registry)
    ignore_unknown,   \* ImportContainer(ignore_unknown=...)
    policy,           \* the relink actions the caller's policy may return
    store,            \* the record store: the set of persisted instances
    objects,          \* self._objects, in insertion order
    discarded,        \* self.__discarded_objects
    instance_map,     \* self.__instance_map
    report,           \* self.report
    sorter,           \* the graphlib.TopologicalSorter of import_objects
    ready_objects,    \* the ready batch being processed
    kind_queue,       \* kinds of the batch not yet finished, current one first
    relink_actions,   \* the list built at "Gather relink actions"
    pending,          \* actions of set(relink_actions) not yet executed
    execLog,          \* every _execute call made so far, with the discard set and
                      \* the store it started from
    pc,               \* position inside import_objects
    err               \* the exception that ended the import, "" when none

vars == <<exp, handles, container, open, ctx, read_err, attachment_handler, hooks, exporters, ignore_unknown, policy, store, objects, discarded,
          instance_map, report, sorter, ready_objects, kind_queue, relink_actions,
          pending, execLog, pc, err>>

\* --------------------------------------------------------------- records
\* ObjectData of a document before deserialization: fields is None, no refs;
\* stream is the _container_stream of its attachments
ObjectData(doc) ==
    [id |-> doc.id, data |-> doc.data, refs |-> <<>>,
     fields |-> [set |-> FALSE, name |-> 0, isbn |-> 0, rel |-> <<>>],
     attachments |-> doc.attachments, stream |-> 0]

ObjIndex(objs, id) == CHOOSE i \in 1..Len(objs) : objs[i].id = id
ObjOf(objs, id) == objs[ObjIndex(objs, id)]
LoadedIds(objs) == {objs[i].id : i \in 1..Len(objs)}

\* ImportContainer.__group_by_kind: the kinds in order of first occurrence
\* and, per kind, its members in order
KindsOf(ids) == Dedup([i \in 1..Len(ids) |-> ids[i].kind])
OfKind(ids, kind) == SelectSeq(ids, LAMBDA x : x.kind = kind)

\* bool(obj.fields) of a dict: some key is left in it
FieldsTruthy(o) == o.fields.name # 0 \/ o.fields.isbn # 0 \/ DOMAIN o.fields.rel # {}

\* ------------------------------------------------- topological sorter
\* graphlib.TopologicalSorter as import_objects uses it: add, prepare,
\* is_active, get_ready, done
SorterNew ==
    [order |-> <<>>, npred |-> <<>>, succ |-> <<>>, ready |-> <<>>,
     npassedout |-> 0, nfinished |-> 0]

\* _get_nodeinfo: a node seen for the first time is entered with no predecessors
GetNodeInfo(s, n) ==
    IF n \in DOMAIN s.npred THEN s
    ELSE [s EXCEPT !.order = Append(@, n),
                   !.npred = (n :> 0) @@ @,
                   !.succ = (n :> <<>>) @@ @]

RECURSIVE AddPreds(_, _, _, _)
AddPreds(s, node, preds, k) ==
    IF k > Len(preds) THEN s
    ELSE LET s1 == GetNodeInfo(s, preds[k]) IN
         AddPreds([s1 EXCEPT !.succ[preds[k]] = Append(@, node)], node, preds, k + 1)

\* sorter.add(node, *preds)
SorterAdd(s, node, preds) ==
    LET s1 == GetNodeInfo(s, node) IN
    AddPreds([s1 EXCEPT !.npred[node] = @ + Len(preds)], node, preds, 1)

RECURSIVE Reach(_, _)
\* the nodes reachable from the set `from` along successor edges
Reach(s, from) ==
    LET next == from \cup UNION {Range(s.succ[n]) : n \in from} IN
    IF next = from THEN from ELSE Reach(s, next)

\* _find_cycle reports a cycle exactly when some node reaches itself
HasCycle(s) == \E n \in DOMAIN s.npred : n \in Reach(s, Range(s.succ[n]))

\* sorter.prepare(): the nodes without predecessors, in insertion order
SorterPrepare(s) ==
    [s EXCEPT !.ready = SelectSeq(s.order, LAMBDA n : s.npred[n] = 0)]

\* sorter.is_active()
SorterIsActive(s) == s.nfinished < s.npassedout \/ s.ready # <<>>

\* sorter.get_ready(): hands out the ready nodes and marks them passed out
SorterGetReady(s) ==
    [s EXCEPT !.npred = [n \in DOMAIN s.npred |->
                            IF n \in Range(s.ready) THEN NODE_OUT ELSE s.npred[n]],
              !.ready = <<>>,
              !.npassedout = @ + Len(s.ready)]

RECURSIVE Release(_, _, _)
\* done()'s loop over the successors of a node
Release(s, succs, k) ==
    IF k > Len(succs) THEN s
    ELSE LET n == succs[k]
             c == s.npred[n] - 1
             s1 == [s EXCEPT !.npred[n] = c] IN
         Release(IF c = 0 THEN [s1 EXCEPT !.ready = Append(@, n)] ELSE s1, succs, k + 1)

\* sorter.done(node): ValueError unless the node was passed out and is not done
SorterDone(s, node) ==
    IF node \notin DOMAIN s.npred THEN [s |-> s, err |-> "ValueError: node not added"]
    ELSE IF s.npred[node] = NODE_DONE
         THEN [s |-> s, err |-> "ValueError: node already marked done"]
    ELSE IF s.npred[node] # NODE_OUT
         THEN [s |-> s, err |-> "ValueError: node not passed out"]
    ELSE LET s1 == Release([s EXCEPT !.npred[node] = NODE_DONE], s.succ[node], 1) IN
         [s |-> [s1 EXCEPT !.nfinished = @ + 1], err |-> ""]

\* ------------------------------------------------------- import engine
\* The operators below work on a record w of the engine's mutable state:
\* objects, discarded, instance_map, report, sorter, store, err.  An
\* exception is w.err # "": what was written before it stays written.

\* _discard_objects without line 148
DiscardObjectsUnreported(w, ids) ==
    [w EXCEPT !.discarded = @ \cup Range(ids)]

\* ImportContainer._discard_objects
DiscardObjects(w, ids) ==
    [w EXCEPT !.discarded = @ \cup Range(ids),
              !.report.discarded_objects = @ \cup Range(ids)]

\* _register_imported replacing the map by the new entry
RegisterImportedAlone(w, id, instance) ==
    [w EXCEPT !.report.imported_objects = @ \cup {instance},
              !.instance_map = (id :> instance)]

\* ImportContainer._register_imported
RegisterImported(w, id, instance) ==
    [w EXCEPT !.report.imported_objects = @ \cup {instance},
              !.instance_map = (id :> instance) @@ @]

\* obj.fields = deserialized_data, and add_reference for every Ref in it
DeserializeObject(o) ==
    [o EXCEPT !.fields = [set |-> TRUE, name |-> o.data.name, isbn |-> o.data.isbn,
                          rel |-> [f \in {o.data.refs[i].field : i \in 1..Len(o.data.refs)}
                                      |-> FRef]],
              !.refs = o.data.refs]

\* the closure check taking a target that is not deserialized for a missing one
UnresolvedReferenceAmongDeserialized(objs) ==
    \E i \in 1..Len(objs) : \E r \in 1..Len(objs[i].refs) :
        \E k \in 1..Len(objs[i].refs[r].ids) :
            objs[i].refs[r].ids[k] \notin
                {objs[j].id : j \in {n \in 1..Len(objs) : objs[n].fields.set}}

\* the closure check that follows the deserialization of each kind
UnresolvedReference(objs) ==
    \E i \in 1..Len(objs) : \E r \in 1..Len(objs[i].refs) :
        \E k \in 1..Len(objs[i].refs[r].ids) :
            objs[i].refs[r].ids[k] \notin LoadedIds(objs)

RECURSIVE DeserializeKindsSkipUnknown(_, _, _, _, _)
\* the "Deserialize data" loop without line 167
DeserializeKindsSkipUnknown(w, kinds, k, registry, ignore) ==
    IF k > Len(kinds) \/ w.err # "" THEN w
    ELSE LET kind == kinds[k]
             members == {i \in 1..Len(w.objects) : w.objects[i].id.kind = kind} IN
         IF kind \notin registry
         THEN IF ignore
              THEN DeserializeKindsSkipUnknown(w, kinds, k + 1, registry, ignore)
              ELSE [w EXCEPT !.err = "ModelClassNotRegistered"]
         ELSE LET objs == [i \in 1..Len(w.objects) |->
                              IF i \in members THEN DeserializeObject(w.objects[i])
                              ELSE w.objects[i]]
                  w1 == [w EXCEPT !.objects = objs] IN
              IF UnresolvedReference(objs)
              THEN [w1 EXCEPT !.err = "ValueError: Unresolved reference"]
              ELSE DeserializeKindsSkipUnknown(w1, kinds, k + 1, registry, ignore)

RECURSIVE DeserializeKinds(_, _, _, _, _)
\* the "Deserialize data" loop over kind_map
DeserializeKinds(w, kinds, k, registry, ignore) ==
    IF k > Len(kinds) \/ w.err # "" THEN w
    ELSE LET kind == kinds[k]
             members == {i \in 1..Len(w.objects) : w.objects[i].id.kind = kind} IN
         IF kind \notin registry
         THEN IF ignore
              THEN DeserializeKinds(
                       DiscardObjects(w, SelectSeq([i \in 1..Len(w.objects) |-> w.objects[i].id],
                                                   LAMBDA x : x.kind = kind)),
                       kinds, k + 1, registry, ignore)
              ELSE [w EXCEPT !.err = "ModelClassNotRegistered"]
         ELSE LET objs == [i \in 1..Len(w.objects) |->
                              IF i \in members THEN DeserializeObject(w.objects[i])
                              ELSE w.objects[i]]
                  w1 == [w EXCEPT !.objects = objs] IN
              IF UnresolvedReference(objs)
              THEN [w1 EXCEPT !.err = "ValueError: Unresolved reference"]
              ELSE DeserializeKinds(w1, kinds, k + 1, registry, ignore)

RECURSIVE FlattenIds(_, _)
\* [id for ref in refs for id in ref.ids if not ref.weak], from ref k on
FlattenIds(refs, k) ==
    IF k > Len(refs) THEN <<>>
    ELSE (IF refs[k].weak THEN <<>> ELSE refs[k].ids) \o FlattenIds(refs, k + 1)

\* the deps list without "not ref.weak"
DepsWithWeak(o, disc) ==
    SelectSeq(FlattenIds([r \in 1..Len(o.refs) |-> [o.refs[r] EXCEPT !.weak = FALSE]], 1),
              LAMBDA id : id \notin disc)

\* a graph in which no object waits for another
DepsNone(o, disc) == <<>>

\* the deps list of one object at "Build object graph"
Deps(o, disc) == SelectSeq(FlattenIds(o.refs, 1), LAMBDA id : id \notin disc)

RECURSIVE BuildSorter(_, _, _, _)
\* the loop that adds every non-discarded object with its deps
BuildSorter(s, objs, disc, k) ==
    IF k > Len(objs) THEN s
    ELSE IF objs[k].id \in disc THEN BuildSorter(s, objs, disc, k + 1)
    ELSE BuildSorter(SorterAdd(s, objs[k].id, Deps(objs[k], disc)), objs, disc, k + 1)

\* ResolvedField with a to-one field bound to an instance of the identity map
\* that need not be the target's
ResolvedFieldAnyInstance(ref, remaining, imap) ==
    IF ref.many THEN FMany([i \in 1..Len(remaining) |-> imap[remaining[i]]])
    ELSE IF Len(remaining) > 0
         THEN FOne(imap[CHOOSE id \in DOMAIN imap : \A other \in DOMAIN imap : id.pk <= other.pk])
    ELSE FNull

\* the value written to a relation field once its reference is resolved
ResolvedField(ref, remaining, imap) ==
    IF ref.many THEN FMany([i \in 1..Len(remaining) |-> imap[remaining[i]]])
    ELSE IF Len(remaining) > 0 THEN FOne(imap[remaining[1]])
    ELSE FNull

RECURSIVE ResolveIdsNoCascade(_, _, _, _, _)
\* ResolveIds with every reference treated as nullable: a discarded target is
\* dropped and the referrer goes on
ResolveIdsNoCascade(w, oid, ref, k, remaining) ==
    IF k > Len(ref.ids) THEN [w |-> w, remaining |-> remaining, discarded |-> FALSE]
    ELSE LET id == ref.ids[k] IN
         IF id \in DOMAIN w.instance_map THEN ResolveIdsNoCascade(w, oid, ref, k + 1, remaining)
         ELSE IF id \in w.discarded
         THEN ResolveIdsNoCascade(w, oid, ref, k + 1, RemoveFirst(remaining, id))
         ELSE [w |-> [w EXCEPT !.err = "ValueError: Consistency error: PK still unknown"],
               remaining |-> remaining, discarded |-> FALSE]

RECURSIVE ResolveIds(_, _, _, _, _)
\* the loop "for id in ref.ids" of one reference of object oid
ResolveIds(w, oid, ref, k, remaining) ==
    IF k > Len(ref.ids) THEN [w |-> w, remaining |-> remaining, discarded |-> FALSE]
    ELSE LET id == ref.ids[k] IN
         IF id \in DOMAIN w.instance_map THEN ResolveIds(w, oid, ref, k + 1, remaining)
         ELSE IF id \in w.discarded
         THEN IF ref.nullable
              THEN ResolveIds(w, oid, ref, k + 1, RemoveFirst(remaining, id))
              ELSE LET w1 == DiscardObjects(w, <<oid>>)
                       d == SorterDone(w1.sorter, oid) IN
                   [w |-> [w1 EXCEPT !.sorter = d.s, !.err = d.err],
                    remaining |-> remaining, discarded |-> TRUE]
         ELSE [w |-> [w EXCEPT !.err = "ValueError: Consistency error: PK still unknown"],
               remaining |-> remaining, discarded |-> FALSE]

RECURSIVE ResolveRefsWeakToo(_, _, _)
\* ResolveRefs without "if ref.weak: continue"
ResolveRefsWeakToo(w, oid, k) ==
    LET o == ObjOf(w.objects, oid) IN
    IF k > Len(o.refs) \/ w.err # "" THEN w
    ELSE LET ref == o.refs[k]
             r == ResolveIds(w, oid, ref, 1, ref.ids) IN
         IF r.w.err # "" THEN r.w
         ELSE IF r.discarded THEN ResolveRefsWeakToo(r.w, oid, k + 1)
         ELSE ResolveRefsWeakToo(
                  [r.w EXCEPT !.objects[ObjIndex(w.objects, oid)].fields.rel[ref.field] =
                                  ResolvedField(ref, r.remaining, r.w.instance_map)],
                  oid, k + 1)

RECURSIVE ResolveRefs(_, _, _)
\* the loop "for ref in obj.refs": after a cascade discard it goes on with
\* the next reference of the same object
ResolveRefs(w, oid, k) ==
    LET o == ObjOf(w.objects, oid) IN
    IF k > Len(o.refs) \/ w.err # "" THEN w
    ELSE LET ref == o.refs[k] IN
         IF ref.weak THEN ResolveRefs(w, oid, k + 1)
         ELSE LET r == ResolveIds(w, oid, ref, 1, ref.ids) IN
              IF r.w.err # "" THEN r.w
              ELSE IF r.discarded THEN ResolveRefs(r.w, oid, k + 1)
              ELSE ResolveRefs(
                       [r.w EXCEPT !.objects[ObjIndex(w.objects, oid)].fields.rel[ref.field] =
                                       ResolvedField(ref, r.remaining, r.w.instance_map)],
                       oid, k + 1)

\* "Remove reverse FK fields": the fields of the weak (reverse) references
RemoveReverseFields(o) ==
    LET weak == {o.refs[i].field : i \in {j \in 1..Len(o.refs) : o.refs[j].weak}} IN
    [o EXCEPT !.fields.rel = [f \in (DOMAIN o.fields.rel) \ weak |-> o.fields.rel[f]]]

RECURSIVE ResolveObjects(_, _, _)
\* "Resolve all references" for the objects of one kind of the batch
ResolveObjects(w, ids, k) ==
    IF k > Len(ids) \/ w.err # "" THEN w
    ELSE LET w1 == ResolveRefs(w, ids[k], 1) IN
         IF w1.err # "" THEN w1
         ELSE LET i == ObjIndex(w1.objects, ids[k]) IN
              ResolveObjects([w1 EXCEPT !.objects[i] = RemoveReverseFields(w1.objects[i])],
                             ids, k + 1)

\* ------------------------------------------------------- relink actions
\* Every execute below returns [out, store, err]: the outcome list, the
\* store after it, and the exception it raised ("" when none).

InstancesOf(st, kind) == {x \in st : x.kind = kind}

\* the primary key the store gives the next created instance of a kind
NextPk(st, kind) ==
    LET pks == {x.pk : x \in InstancesOf(st, kind)} IN
    IF pks = {} THEN 1 ELSE (CHOOSE m \in pks : \A q \in pks : q <= m) + 1

\* a typed field mapping that still holds a Ref the engine did not resolve
HoldsRef(o) == \E f \in DOMAIN o.fields.rel : o.fields.rel[f] = FRef

RECURSIVE CreateAll(_, _, _, _, _)
\* model_cls.objects.create(...) for each fieldset in turn; the store takes a
\* mapping that still holds a Ref only when `accepts`
CreateAll(st, kind, fieldsets, k, accepts) ==
    IF k > Len(fieldsets) THEN [out |-> <<>>, store |-> st, err |-> ""]
    ELSE IF HoldsRef(fieldsets[k]) /\ ~accepts
         THEN [out |-> <<>>, store |-> st, err |-> "StoreError"]
    ELSE LET inst == Inst2(kind, NextPk(st, kind), fieldsets[k].fields.name,
                          fieldsets[k].fields.isbn)
             rest == CreateAll(st \cup {inst}, kind, fieldsets, k + 1, accepts) IN
         [rest EXCEPT !.out = <<Some(inst)>> \o @]

\* RelinkAction.Create.execute: one instance per object whose fields are truthy
CreateExecute(st, kind, objs, accepts) ==
    CreateAll(st, kind, SelectSeq(objs, FieldsTruthy), 1, accepts)

\* RelinkAction.Discard.execute
DiscardExecute(st, objs) ==
    [out |-> [i \in 1..Len(objs) |-> False], store |-> st, err |-> ""]

\* RelinkAction.LogToConsole.execute
LogToConsoleExecute(st, objs) ==
    [out |-> [i \in 1..Len(objs) |-> None], store |-> st, err |-> ""]

\* queryset.first(): the match with the lowest primary key, None without one
First(matches) ==
    IF matches = {} THEN None
    ELSE Some(CHOOSE x \in matches : \A y \in matches : x.pk <= y.pk)

\* RelinkAction.LinkByFields.execute with lookup_fields = ('name',); a mapping
\* without the key looks up None, which matches nothing
LinkByFieldsExecute(st, kind, objs) ==
    [out |-> [i \in 1..Len(objs) |->
                 First({x \in InstancesOf(st, kind) :
                           objs[i].fields.name # 0 /\ x.name = objs[i].fields.name})],
     store |-> st, err |-> ""]

\* RelinkAction.LinkByPK.execute
LinkByPKExecute(st, kind, objs) ==
    [out |-> [i \in 1..Len(objs) |->
                 First({x \in InstancesOf(st, kind) : x.pk = objs[i].id.pk})],
     store |-> st, err |-> ""]

\* LinkToInstance.execute saving a copy of the instance for the group
LinkToInstanceExecuteCopy(st, kind, objs, pk) ==
    LET found == {x \in InstancesOf(st, kind) : x.pk = pk} IN
    IF found = {} THEN [out |-> <<>>, store |-> st, err |-> "DoesNotExist"]
    ELSE LET copy == [(CHOOSE x \in found : TRUE) EXCEPT !.pk = NextPk(st, kind)] IN
         [out |-> [i \in 1..Len(objs) |-> Some(copy)],
          store |-> st \cup {copy}, err |-> ""]

\* RelinkAction.LinkToInstance.execute: objects.get(pk=...) raises without a match
LinkToInstanceExecute(st, kind, objs, pk) ==
    LET found == {x \in InstancesOf(st, kind) : x.pk = pk} IN
    IF found = {} THEN [out |-> <<>>, store |-> st, err |-> "DoesNotExist"]
    ELSE [out |-> [i \in 1..Len(objs) |-> Some(CHOOSE x \in found : TRUE)],
          store |-> st, err |-> ""]

\* action.execute(model_cls, objects, policy), by the action's class
Execute(a, st, kind, objs, accepts) ==
    CASE a.type = "Create" -> CreateExecute(st, kind, objs, accepts)
      [] a.type = "Discard" -> DiscardExecute(st, objs)
      [] a.type = "LogToConsole" -> LogToConsoleExecute(st, objs)
      [] a.type = "LinkByFields" -> LinkByFieldsExecute(st, kind, objs)
      [] a.type = "LinkByPK" -> LinkByPKExecute(st, kind, objs)
      [] a.type = "LinkToInstance" -> LinkToInstanceExecute(st, kind, objs, a.pk)

\* the indices of the None entries, ascending (fallback_indices)
RECURSIVE FallbackIndices(_, _)
FallbackIndices(instances, k) ==
    IF k > Len(instances) THEN <<>>
    ELSE (IF instances[k] = None THEN <<k>> ELSE <<>>) \o FallbackIndices(instances, k + 1)

\* Splice with the fallback's k-th outcome written at position k
SpliceByPosition(instances, indices, fallback_instances) ==
    [i \in 1..Len(instances) |->
        IF i <= Min(Len(indices), Len(fallback_instances))
        THEN fallback_instances[i]
        ELSE instances[i]]

\* "for instance, index in zip(fallback_instances, fallback_indices):
\*      instances[index] = instance"
Splice(instances, indices, fallback_instances) ==
    [i \in 1..Len(instances) |->
        IF \E k \in 1..Min(Len(indices), Len(fallback_instances)) : indices[k] = i
        THEN fallback_instances[CHOOSE k \in 1..Len(indices) : indices[k] = i]
        ELSE instances[i]]

\* ExecuteChain without the check for a missing fallback: the unresolved
\* outcomes are returned as they are
ExecuteChainNoRaise(action, st, kind, objs, accepts) ==
    LET own == Execute(action[1], st, kind, objs, accepts)
        idx == FallbackIndices(own.out, 1)
        base == [out |-> own.out, store |-> own.store, err |-> own.err, own |-> own.out,
                 fb_called |-> FALSE, fb_objects |-> <<>>, fb_out |-> <<>>] IN
    IF own.err # "" \/ idx = <<>> \/ Len(action) = 1 THEN base
    ELSE LET fobjs == [k \in 1..Len(idx) |-> objs[idx[k]]]
             fb == Execute(action[2], own.store, kind, fobjs, accepts) IN
         [out |-> IF fb.err # "" THEN own.out ELSE Splice(own.out, idx, fb.out),
          store |-> fb.store, err |-> fb.err, own |-> own.out,
          fb_called |-> TRUE, fb_objects |-> [k \in 1..Len(fobjs) |-> fobjs[k].id],
          fb_out |-> fb.out]

\* BaseRelinkAction._execute for the chain `action` (the action, then its
\* fallbacks).  Besides [out, store, err] the result keeps what the call did:
\* own (execute's list), fb_called, fb_objects, fb_out.
ExecuteChain(action, st, kind, objs, accepts) ==
    LET own == Execute(action[1], st, kind, objs, accepts)
        idx == FallbackIndices(own.out, 1)
        base == [out |-> own.out, store |-> own.store, err |-> own.err, own |-> own.out,
                 fb_called |-> FALSE, fb_objects |-> <<>>, fb_out |-> <<>>] IN
    IF own.err # "" \/ idx = <<>> THEN base
    ELSE IF Len(action) = 1
         THEN [base EXCEPT !.err = "RuntimeError: no fallback provided"]
    ELSE LET fobjs == [k \in 1..Len(idx) |-> objs[idx[k]]]
             fb == Execute(action[2], own.store, kind, fobjs, accepts) IN
         [out |-> IF fb.err # "" THEN own.out ELSE Splice(own.out, idx, fb.out),
          store |-> fb.store, err |-> fb.err, own |-> own.out,
          fb_called |-> TRUE, fb_objects |-> [k \in 1..Len(fobjs) |-> fobjs[k].id],
          fb_out |-> fb.out]

\* the classes derived from BaseRelinkActionWithFieldsOverwrite
LinkClasses == {"LinkByFields", "LinkByPK", "LinkToInstance"}

\* the plain fields of the schema
PlainFields == {"name", "isbn"}

\* the keys of a typed mapping that overwrite_fields selects: every key with
\* ('__all__',), else the keys it names; 0 stands for a key that is absent
OverwriteSelection(ow, fields) ==
    {f \in PlainFields :
        /\ (IF f = "name" THEN fields.name ELSE fields.isbn) # 0
        /\ (ow = AllFields \/ f \in ow)}

\* _assign_model_fields: setattr for every selected key
AssignModelFields(inst, fields, sel) ==
    [inst EXCEPT !.name = IF "name" \in sel THEN fields.name ELSE @,
                 !.isbn = IF "isbn" \in sel THEN fields.isbn ELSE @]

\* the row of the store an instance object stands for
RowOf(st, inst) == CHOOSE x \in st : x.kind = inst.kind /\ x.pk = inst.pk

\* entries i and j of the list r.out are one and the same instance object:
\* execute() hands out one object per row it fetched (search_cache, the
\* single get()), and the fallback's execute() fetches its own objects
SameObject(r, i, j) ==
    /\ r.out[i].t = "inst" /\ r.out[j].t = "inst"
    /\ r.out[i].v.kind = r.out[j].v.kind /\ r.out[i].v.pk = r.out[j].v.pk
    /\ (r.own[i] = None) = (r.own[j] = None)

RECURSIVE OverwriteLoop(_, _, _, _)
\* "for obj, instance in zip(objects, instances)": assign the selected fields
\* to every instance and save it, which writes all its fields to its row
OverwriteLoop(r, objs, ow, k) ==
    IF k > Min(Len(objs), Len(r.out)) THEN r
    ELSE IF r.out[k].t # "inst" THEN OverwriteLoop(r, objs, ow, k + 1)
    ELSE LET new == AssignModelFields(r.out[k].v, objs[k].fields,
                                      OverwriteSelection(ow, objs[k].fields)) IN
         OverwriteLoop(
             [r EXCEPT !.store = (@ \ {RowOf(@, new)}) \cup {new},
                       !.out = [j \in 1..Len(r.out) |->
                                   IF SameObject(r, j, k) THEN Some(new) ELSE r.out[j]]],
             objs, ow, k + 1)

\* _execute running the overwrite loop whatever overwrite_fields is
ExecuteWithOverwriteAlways(r, ow, objs) ==
    IF r.err # "" THEN r ELSE OverwriteLoop(r, objs, AllFields, 1)

\* BaseRelinkActionWithFieldsOverwrite._execute after "instances =
\* super()._execute(...)" has given r: the overwrite loop, when
\* overwrite_fields is not empty
ExecuteWithOverwrite(r, ow, objs) ==
    IF r.err # "" \/ ow = {} THEN r ELSE OverwriteLoop(r, objs, ow, 1)

\* action._execute(model_cls, action_objects, policy): the base method, and
\* for the classes with overwrite_fields the overwrite loop after it
ActionExecute(action, st, kind, objs, accepts) ==
    ExecuteWithOverwrite(ExecuteChain(action, st, kind, objs, accepts),
                         IF action[1].type \in LinkClasses THEN action[1].ow ELSE {},
                         objs)

RECURSIVE RegisterLoop(_, _, _, _)
\* "for obj, instance in zip(action_objects, instances)": discard, or call
\* post_object_import and register; then sorter.done(obj)
RegisterLoop(w, ids, instances, k) ==
    IF k > Min(Len(ids), Len(instances)) \/ w.err # "" THEN w
    ELSE LET w1 == IF instances[k] = False THEN DiscardObjects(w, <<ids[k]>>)
                   ELSE RegisterImported(
                            [w EXCEPT !.hooks = Append(@, Hook("post_object_import", ids[k],
                                                               instances[k], 0))],
                            ids[k], instances[k])
             d == SorterDone(w1.sorter, ids[k]) IN
         RegisterLoop([w1 EXCEPT !.sorter = d.s, !.err = d.err], ids, instances, k + 1)

\* "action_objects = [x[1] for x in zip(relink_actions, objects) if x[0] == action]"
ActionObjects(actions, ids, action) ==
    LET n == Min(Len(actions), Len(ids))
        paired == [i \in 1..n |-> [a |-> actions[i], id |-> ids[i]]]
        mine == SelectSeq(paired, LAMBDA x : x.a = action) IN
    [i \in 1..Len(mine) |-> mine[i].id]

\* --------------------------------------------------------------- inputs
Pks == 1..NumRecs

\* every record is of kind "a", except that the last one may be of kind "b"
KindOf(lastKind, i) == IF i = NumRecs THEN lastKind ELSE "a"
IdOf(lastKind, i) == ID(KindOf(lastKind, i), i)

RECURSIVE IdSeqs(_)
\* the lists of at most n distinct primary keys
IdSeqs(n) ==
    IF n = 0 THEN {<<>>}
    ELSE LET prev == IdSeqs(n - 1)
             longest == {x \in prev : Len(x) = n - 1} IN
         prev \cup {Append(z[1], z[2]) : z \in {y \in longest \X Pks : y[2] \notin Range(y[1])}}

\* one reference of one record: a to-one field (nullable or not), a
\* collection field (nullable or not) or a weak reverse collection
Placements ==
    {[owner |-> o, ids |-> <<t>>, nullable |-> n, weak |-> FALSE, many |-> FALSE] :
        o \in Pks, t \in Pks, n \in BOOLEAN}
    \cup {[owner |-> o, ids |-> q, nullable |-> n, weak |-> FALSE, many |-> TRUE] :
        o \in Pks, q \in IdSeqs(MaxIds), n \in BOOLEAN}
    \cup {[owner |-> o, ids |-> <<t>>, nullable |-> TRUE, weak |-> TRUE, many |-> TRUE] :
        o \in Pks, t \in Pks}

RECURSIVE TotalIds(_)
TotalIds(pl) == IF pl = <<>> THEN 0 ELSE Len(Head(pl).ids) + TotalIds(Tail(pl))

RECURSIVE RefLayouts(_)
\* the reference layouts of a container: at most n references, listed by
\* owner, with at most MaxIds target ids in all
RefLayouts(n) ==
    IF n = 0 THEN {<<>>}
    ELSE LET prev == RefLayouts(n - 1)
             longest == {x \in prev : Len(x) = n - 1} IN
         prev \cup {Append(z[1], z[2]) : z \in longest \X Placements}

LayoutOk(pl) ==
    /\ TotalIds(pl) <= MaxIds
    /\ \A i \in 1..(Len(pl) - 1) : pl[i].owner <= pl[i + 1].owner

\* the references of record i under a layout, with field names by position
RefsOf(pl, lastKind, i) ==
    LET mine == SelectSeq(pl, LAMBDA p : p.owner = i) IN
    [k \in 1..Len(mine) |->
        Ref([j \in 1..Len(mine[k].ids) |-> IdOf(lastKind, mine[k].ids[j])],
            FieldNames[k], mine[k].nullable, mine[k].weak, mine[k].many)]

\* the container read from the stream: one object document per record
Documents(pl, lastKind, names) ==
    [i \in 1..NumRecs |->
        [seg |-> "object", id |-> IdOf(lastKind, i),
         data |-> [name |-> names[i], isbn |-> 0, refs |-> RefsOf(pl, lastKind, i)],
         attachments |-> <<>>]]

\* a stream handed to read(): an archive or a plain stream of documents
Stream(zip, docs) == [zip |-> zip, docs |-> docs]

\* an entry of `handles`: `what` of stream `stream` is opened or closed, or
\* process_attachment is called for attachment `id`
Ev(ev, what, stream, id) == [ev |-> ev, what |-> what, stream |-> stream, id |-> id]

\* what read() opens and closes up to its yield or its exception for the
\* n-th stream: the archive and its metadata.yaml, or the buffered reader;
\* the archive is closed as soon as metadata.yaml is open, the metadata
\* stream after the parsing loop, and the archive again when read() ends
ReadHandles(stream, n, error) ==
    IF stream.zip
    THEN <<Ev("open", "archive", n, 0), Ev("open", "metadata", n, 0),
           Ev("close", "archive", n, 0), Ev("close", "metadata", n, 0)>>
         \o (IF error # "" THEN <<Ev("close", "archive", n, 0)>> ELSE <<>>)
    ELSE <<Ev("open", "metadata", n, 0), Ev("close", "metadata", n, 0)>>

\* what the end of the read() context closes: "if archive: archive.close()"
ExitHandles(stream, n) ==
    IF stream.zip THEN <<Ev("close", "archive", n, 0)>> ELSE <<>>

\* no ExportContainer
NoExport == [objects |-> <<>>]

\* the header document
Header(version, kinds) == [seg |-> "header", version |-> version, object_kinds |-> kinds]

\* the kinds of the destination schema: apps.get_models()
AllKinds == {"a", "b"}

RECURSIVE ReadDocumentsKeepDuplicates(_, _, _, _, _)
\* the loop of read() without the test of lines 116-117
ReadDocumentsKeepDuplicates(w, docs, k, stream, ignore) ==
    IF k > Len(docs) \/ w.err # "" THEN w
    ELSE LET d == docs[k] IN
         IF d.seg = "header"
         THEN IF d.version # 1
              THEN [w EXCEPT !.err = "ValueError: Unknown container version"]
              ELSE IF d.object_kinds \ AllKinds # {} /\ ~ignore
              THEN [w EXCEPT !.err = "ValueError: Unknown object types"]
              ELSE ReadDocumentsKeepDuplicates(w, docs, k + 1, stream, ignore)
         ELSE IF d.seg = "object"
         THEN ReadDocumentsKeepDuplicates(
                  [w EXCEPT !.objects = Append(@, [ObjectData(d) EXCEPT !.stream = stream]),
                            !.report.loaded_objects = @ \cup {d.id}],
                  docs, k + 1, stream, ignore)
         ELSE [w EXCEPT !.err = "ValueError: Unknown container segment"]

RECURSIVE ReadDocumentsAnyHeader(_, _, _, _, _)
\* the loop of read() without the tests of lines 93-97
ReadDocumentsAnyHeader(w, docs, k, stream, ignore) ==
    IF k > Len(docs) \/ w.err # "" THEN w
    ELSE LET d == docs[k] IN
         IF d.seg = "header"
         THEN ReadDocumentsAnyHeader(w, docs, k + 1, stream, ignore)
         ELSE IF d.seg = "object"
         THEN IF d.id \in LoadedIds(w.objects)
              THEN [w EXCEPT !.err = "ValueError: Duplicate object"]
              ELSE ReadDocumentsAnyHeader(
                       [w EXCEPT !.objects = Append(@, [ObjectData(d) EXCEPT !.stream = stream]),
                                 !.report.loaded_objects = @ \cup {d.id}],
                       docs, k + 1, stream, ignore)
         ELSE [w EXCEPT !.err = "ValueError: Unknown container segment"]

RECURSIVE ReadDocuments(_, _, _, _, _)
\* the loop of read() over the documents of a stream, from document k on;
\* w is [objects, report, err]
ReadDocuments(w, docs, k, stream, ignore) ==
    IF k > Len(docs) \/ w.err # "" THEN w
    ELSE LET d == docs[k] IN
         IF d.seg = "header"
         THEN IF d.version # 1
              THEN [w EXCEPT !.err = "ValueError: Unknown container version"]
              ELSE IF d.object_kinds \ AllKinds # {} /\ ~ignore
              THEN [w EXCEPT !.err = "ValueError: Unknown object types"]
              ELSE ReadDocuments(w, docs, k + 1, stream, ignore)
         ELSE IF d.seg = "object"
         THEN IF d.id \in LoadedIds(w.objects)
              THEN [w EXCEPT !.err = "ValueError: Duplicate object"]
              ELSE ReadDocuments(
                       [w EXCEPT !.objects = Append(@, [ObjectData(d) EXCEPT !.stream = stream]),
                                 !.report.loaded_objects = @ \cup {d.id}],
                       docs, k + 1, stream, ignore)
         ELSE [w EXCEPT !.err = "ValueError: Unknown container segment"]

NoReport ==
    [loaded_objects |-> {}, imported_objects |-> {}, discarded_objects |-> {},
     pk_map |-> <<>>]

\* the state import_objects starts from: read() has loaded the documents
Loaded(docs) ==
    /\ container = <<Stream(TRUE, <<Header(1, {docs[i].id.kind : i \in 1..Len(docs)})>> \o docs)>>
    /\ open = TRUE
    /\ ctx = TRUE
    /\ read_err = ""
    /\ hooks = <<>>
    /\ handles = ReadHandles(Stream(TRUE, <<>>), 1, "")
    /\ exp = NoExport
    /\ objects = [i \in 1..Len(docs) |-> [ObjectData(docs[i]) EXCEPT !.stream = 1]]
    /\ discarded = {}
    /\ instance_map = <<>>
    /\ report = [NoReport EXCEPT !.loaded_objects = {docs[i].id : i \in 1..Len(docs)}]
    /\ sorter = SorterNew
    /\ ready_objects = <<>>
    /\ kind_queue = <<>>
    /\ relink_actions = <<>>
    /\ pending = {}
    /\ execLog = <<>>
    /\ pc = "deserialize"
    /\ err = ""

\* Containers with references, imported under a policy that creates,
\* discards or links to a fixed instance
Init ==
    \E lastKind \in {"a", "b"}, registry \in {{"a", "b"}, {"a"}}, ignore \in BOOLEAN :
    \E pl \in {x \in RefLayouts(MaxRefs) : LayoutOk(x)} :
        /\ lastKind = "a" => registry = {"a", "b"}
        /\ registry = {"a", "b"} => ~ignore
        /\ Loaded(Documents(pl, lastKind, [i \in Pks |-> i]))
        /\ exporters = registry
        /\ ignore_unknown = ignore
        /\ policy = {Create, Discard, LinkToInstance(1)}
        /\ attachment_handler = FALSE
        /\ store = {Inst("a", 1, 1), Inst("b", 1, 1)}

\* the typed 'name' of a record: 0 stands for a typed field mapping without
\* any key, the other values are compared with the names in the store
Names == {0, 1, 2}

\* the policies of the relink runs: the default one, and one that may return
\* any of these chains
DefaultPolicy == {Create}
RelinkPolicy ==
    {Create,
     WithFallback(LinkByFields, Create),
     LinkByPK,
     LogToConsole,
     WithFallback(LinkByPK, WithFallback(LinkByFields, Create)),
     WithFallback(LogToConsole, Discard)}

\* Containers of records of one kind without references, imported into a store
\* that may hold instances with the same primary keys or names
InitRelink ==
    \E names \in [Pks -> Names], st \in SUBSET {Inst("a", 1, 1), Inst("a", 3, 2)},
       pol \in {DefaultPolicy, RelinkPolicy} :
        /\ Loaded(Documents(<<>>, "a", names))
        /\ exporters = {"a", "b"}
        /\ ignore_unknown = FALSE
        /\ policy = pol
        /\ attachment_handler = FALSE
        /\ store = st

\* the records of the overwrite runs
OverwriteRecs == 2

\* the policies of the overwrite runs: each linking class without fields to
\* overwrite, with one named field and with all fields, alone or with a
\* fallback, and a linking class with fields to overwrite as the fallback
OverwritePolicy ==
    {Overwriting(WithFallback(LinkByPK, Create), ow) : ow \in {{}, {"isbn"}, AllFields}}
    \cup {Overwriting(WithFallback(LinkByFields, Create), ow) : ow \in {{}, {"name", "isbn"}}}
    \cup {Overwriting(LinkToInstance(1), ow) : ow \in {{}, {"name"}}}
    \cup {WithFallback(LinkByPK, Overwriting(LinkByFields, {"isbn"})),
          WithFallback(Overwriting(LinkByPK, {"name"}), LinkByFields)}

\* Containers of two records of one kind with a name and an isbn, imported
\* into a store that may hold instances with the same primary key or name,
\* under a policy that may return any of the linking chains
InitOverwrite ==
    \E names \in [1..OverwriteRecs -> Names], isbns \in [1..OverwriteRecs -> {0, 5}],
       st \in SUBSET {Inst2("a", 1, 1, 7), Inst2("a", 3, 2, 7)} :
        /\ Loaded([i \in 1..OverwriteRecs |->
                      [seg |-> "object", id |-> ID("a", i),
                       data |-> [name |-> names[i], isbn |-> isbns[i], refs |-> <<>>],
                       attachments |-> <<>>]])
        /\ exporters = {"a", "b"}
        /\ ignore_unknown = FALSE
        /\ policy = OverwritePolicy
        /\ attachment_handler = FALSE
        /\ store = st

\* the records of the batch runs
BatchRecs == 4

\* Containers of BatchRecs records of one kind in which every record but the
\* first may reference the first one through a to-one field, nullable or
\* not: the referrers form one ready batch, imported under a policy that
\* creates or discards
InitBatch ==
    \E refs \in [2..BatchRecs -> {"none", "nullable", "required"}] :
        /\ Loaded([i \in 1..BatchRecs |->
                      [seg |-> "object", id |-> ID("a", i),
                       data |-> [name |-> i, isbn |-> 0,
                                 refs |-> IF i = 1 \/ refs[i] = "none" THEN <<>>
                                          ELSE <<Ref(<<ID("a", 1)>>, "f1", refs[i] = "nullable",
                                                     FALSE, FALSE)>>],
                       attachments |-> <<>>]])
        /\ exporters = {"a", "b"}
        /\ ignore_unknown = FALSE
        /\ policy = {Create, Discard}
        /\ attachment_handler = FALSE
        /\ store = {}

\* an attachment entry of an object document
Att(id, key) == [id |-> id, key |-> key]

\* an object document
ObjectDoc(id, name, refs, attachments) ==
    [seg |-> "object", id |-> id, data |-> [name |-> name, isbn |-> 0, refs |-> refs],
     attachments |-> attachments]

\* the documents of the read sessions: records with and without attachments,
\* a referrer through a non-nullable and through a nullable field, a record
\* of the kind that may be unregistered with its referrer, and a segment
\* that is neither a header nor an object
ReadDocs ==
    {ObjectDoc(ID("a", 1), 1, <<>>, <<Att(1, 1)>>),
     ObjectDoc(ID("a", 2), 2, <<Ref(<<ID("a", 1)>>, "f1", FALSE, FALSE, FALSE)>>,
               <<Att(2, 1), Att(3, 2)>>),
     ObjectDoc(ID("a", 2), 2, <<Ref(<<ID("a", 1)>>, "f1", TRUE, FALSE, FALSE)>>, <<>>),
     ObjectDoc(ID("b", 1), 1, <<>>, <<Att(4, 1)>>),
     ObjectDoc(ID("a", 3), 3, <<Ref(<<ID("b", 1)>>, "f1", FALSE, FALSE, FALSE)>>,
               <<Att(5, 1)>>),
     [seg |-> "other"]}

RECURSIVE DocSeqs(_)
\* the sequences of at most n of these documents
DocSeqs(n) ==
    IF n = 0 THEN {<<>>}
    ELSE LET prev == DocSeqs(n - 1)
             longest == {x \in prev : Len(x) = n - 1} IN
         prev \cup {Append(z[1], z[2]) : z \in longest \X ReadDocs}

\* the streams of the read sessions: archives with a good header, plain
\* streams of one document, and archives whose header has another version or
\* lists a kind the schema does not know
ReadStreams ==
    {Stream(TRUE, <<Header(1, {"a", "b"})>> \o q) : q \in DocSeqs(MaxDocs)}
    \cup {Stream(FALSE, <<Header(1, {"a", "b"}), d>>) : d \in ReadDocs}
    \cup {Stream(TRUE, <<h>> \o q) :
             h \in {Header(2, {"a"}), Header(1, {"a", "z"})}, q \in DocSeqs(1)}

\* A container after __init__, before any read(); the caller then reads
\* streams and calls import_objects in any order
InitRead ==
    /\ container = <<>>
    /\ open = FALSE
    /\ ctx = FALSE
    /\ read_err = ""
    /\ hooks = <<>>
    /\ handles = <<>>
    /\ exp = NoExport
    /\ objects = <<>>
    /\ discarded = {}
    /\ instance_map = <<>>
    /\ report = NoReport
    /\ sorter = SorterNew
    /\ ready_objects = <<>>
    /\ kind_queue = <<>>
    /\ relink_actions = <<>>
    /\ pending = {}
    /\ execLog = <<>>
    /\ pc = "idle"
    /\ err = ""
    /\ exporters \in {{"a", "b"}, {"a"}}
    /\ ignore_unknown \in BOOLEAN
    /\ attachment_handler \in BOOLEAN
    /\ policy = {Create, Discard}
    /\ store = {}

\* ------------------------------------------------------------- actions
\* entering "with container.read(stream)": the documents are parsed; an
\* exception leaves what was loaded before it and the container not open
ReadEnter ==
    /\ pc = "idle"
    /\ ~ctx
    /\ Len(container) < MaxReads
    /\ \E stream \in ReadStreams :
           LET w == ReadDocuments([objects |-> objects, report |-> report, err |-> ""],
                                  stream.docs, 1, Len(container) + 1, ignore_unknown) IN
           /\ container' = Append(container, stream)
           /\ objects' = w.objects
           /\ report' = w.report
           /\ read_err' = w.err
           /\ open' = IF w.err = "" THEN TRUE ELSE open
           /\ ctx' = (w.err = "")
           /\ handles' = handles \o ReadHandles(stream, Len(container) + 1, w.err)
    /\ UNCHANGED <<exp, attachment_handler, hooks, exporters, ignore_unknown, policy, store,
                   discarded, instance_map, sorter, ready_objects, kind_queue,
                   relink_actions, pending, execLog, pc, err>>

\* leaving the read() context without line 129
ReadExitKeepOpen ==
    /\ ctx
    /\ pc \in {"idle", "done", "error"}
    /\ ctx' = FALSE
    /\ handles' = handles \o ExitHandles(container[Len(container)], Len(container))
    /\ UNCHANGED <<exp, container, open, read_err, attachment_handler, hooks, exporters,
                   ignore_unknown, policy, store, objects, discarded, instance_map,
                   report, sorter, ready_objects, kind_queue, relink_actions, pending,
                   execLog, pc, err>>

\* leaving the read() context, normally or with the exception import_objects
\* raised inside it
ReadExit ==
    /\ ctx
    /\ pc \in {"idle", "done", "error"}
    /\ open' = FALSE
    /\ ctx' = FALSE
    /\ handles' = handles \o ExitHandles(container[Len(container)], Len(container))
    /\ UNCHANGED <<exp, container, read_err, attachment_handler, hooks, exporters,
                   ignore_unknown, policy, store, objects, discarded, instance_map,
                   report, sorter, ready_objects, kind_queue, relink_actions, pending,
                   execLog, pc, err>>

NotOpenError == "RuntimeError: Container is not open"

\* the call of import_objects: RuntimeError unless the container is open
CallImport ==
    /\ pc = "idle"
    /\ pc' = IF open THEN "deserialize" ELSE "error"
    /\ err' = IF open THEN "" ELSE NotOpenError
    /\ UNCHANGED <<exp, handles, container, open, ctx, read_err, attachment_handler, hooks, exporters,
                   ignore_unknown, policy, store, objects, discarded, instance_map,
                   report, sorter, ready_objects, kind_queue, relink_actions, pending,
                   execLog>>

W == [objects |-> objects, discarded |-> discarded, instance_map |-> instance_map,
      report |-> report, sorter |-> sorter, store |-> store, hooks |-> hooks,
      handles |-> handles, err |-> ""]

\* writes the engine state w back; an exception ends the import at "error"
Commit(w, next) ==
    /\ objects' = w.objects
    /\ discarded' = w.discarded
    /\ instance_map' = w.instance_map
    /\ report' = w.report
    /\ sorter' = w.sorter
    /\ store' = w.store
    /\ hooks' = w.hooks
    /\ handles' = w.handles
    /\ err' = w.err
    /\ pc' = IF w.err # "" THEN "error" ELSE next

\* where the loop over the kinds of a batch goes once a kind is finished
AfterKind == IF Len(kind_queue) > 1 THEN "resolve" ELSE "ready"

\* writes back the state w of the last step for an action; `last` says that
\* no action of the kind is left
Written(w, last) ==
    /\ Commit(w, IF last THEN AfterKind ELSE "execute")
    /\ kind_queue' = IF last /\ w.err = "" THEN Tail(kind_queue) ELSE kind_queue

\* the objects of the current kind of the batch
CurObjects == OfKind(ready_objects, Head(kind_queue))

\* import_objects, "Deserialize data"
Deserialize ==
    /\ pc = "deserialize"
    /\ Commit(DeserializeKinds(W, KindsOf([i \in 1..Len(objects) |-> objects[i].id]), 1,
                               exporters, ignore_unknown),
              "graph")
    /\ UNCHANGED <<exp, container, open, ctx, read_err, attachment_handler, exporters, ignore_unknown, policy, ready_objects,
                   kind_queue, relink_actions, pending, execLog>>

\* import_objects, "Build object graph": add every object, then prepare()
BuildGraph ==
    /\ pc = "graph"
    /\ LET s == SorterPrepare(BuildSorter(SorterNew, objects, discarded, 1)) IN
       Commit([W EXCEPT !.sorter = s,
                        !.err = IF HasCycle(s) THEN "CycleError" ELSE ""],
              "ready")
    /\ UNCHANGED <<exp, container, open, ctx, read_err, attachment_handler, exporters, ignore_unknown, policy, ready_objects,
                   kind_queue, relink_actions, pending, execLog>>

\* the head of "while sorter.is_active()": the next ready batch, or the end
\* of the loop
GetReady ==
    /\ pc = "ready"
    /\ IF ~SorterIsActive(sorter)
       THEN /\ Commit(W, "finish")
            /\ UNCHANGED <<ready_objects, kind_queue>>
       ELSE /\ Commit([W EXCEPT !.sorter = SorterGetReady(sorter),
                                !.err = IF sorter.ready = <<>>
                                        THEN "RuntimeError: Could not untangle the reference graph"
                                        ELSE ""],
                      "resolve")
            /\ ready_objects' = sorter.ready
            /\ kind_queue' = KindsOf(sorter.ready)
    /\ UNCHANGED <<exp, container, open, ctx, read_err, attachment_handler, exporters, ignore_unknown, policy, relink_actions,
                   pending, execLog>>

\* "Resolve all references" for the current kind of the batch
Resolve ==
    /\ pc = "resolve"
    /\ Commit(ResolveObjects(W, CurObjects, 1), "gather")
    /\ UNCHANGED <<exp, container, open, ctx, read_err, attachment_handler, exporters, ignore_unknown, policy, ready_objects,
                   kind_queue, relink_actions, pending, execLog>>

\* "Gather relink actions": policy.relink_object for every object of the kind
\* that is not discarded; the policy may return any of its actions
Gather ==
    /\ pc = "gather"
    /\ LET survivors == SelectSeq(CurObjects, LAMBDA id : id \notin discarded) IN
       \E actions \in [1..Len(survivors) -> policy] :
           /\ relink_actions' = actions
           /\ pending' = Range(actions)
           /\ pc' = IF Range(actions) = {} THEN AfterKind ELSE "execute"
           /\ kind_queue' = IF Range(actions) = {} THEN Tail(kind_queue) ELSE kind_queue
           /\ hooks' = hooks
                  \o [i \in 1..Len(CurObjects) |->
                         Hook("preprocess_object_fields", CurObjects[i], None, 0)]
                  \o [i \in 1..Len(survivors) |->
                         Hook("relink_object", survivors[i], None, 0)]
    /\ UNCHANGED <<exp, handles, container, open, ctx, read_err, attachment_handler, exporters,
                   ignore_unknown, policy, store, objects,
                   discarded, instance_map, report, sorter, ready_objects, execLog, err>>

\* the engine state after the calls of postprocess_object_fields and of
\* action._execute, which gave r: its exception, or the outcomes registered
AfterExecute(r, ids) ==
    LET w0 == [W EXCEPT !.store = r.store,
                        !.hooks = @ \o [i \in 1..Len(ids) |->
                            Hook("postprocess_object_fields", ids[i], None, 0)]] IN
    IF r.err # "" THEN [w0 EXCEPT !.err = r.err]
    ELSE RegisterLoop(w0, ids, r.out, 1)

\* the entry of execLog for an _execute call that gave r
LogEntry(action, kind, ids, objs, r) ==
    [action |-> action, kind |-> kind, objects |-> ids,
     discarded |-> discarded, store |-> store,
     fields |-> [i \in 1..Len(objs) |-> objs[i].fields],
     own |-> r.own, fb_called |-> r.fb_called, fb_objects |-> r.fb_objects,
     fb_out |-> r.fb_out, instances |-> r.out, err |-> r.err]

\* the body of one round of "for action in set(relink_actions)", r being
\* what action._execute gave
Executed(action, kind, ids, objs, r) ==
    /\ Written(AfterExecute(r, ids), pending = {action})
    /\ execLog' = Append(execLog, LogEntry(action, kind, ids, objs, r))
    /\ pending' = pending \ {action}

\* one round of "for action in set(relink_actions)": a set is iterated in no
\* particular order
ExecuteAction ==
    /\ pc = "execute"
    /\ \E action \in pending :
       LET kind == Head(kind_queue)
           ids == ActionObjects(relink_actions, CurObjects, action)
           objs == [i \in 1..Len(ids) |-> ObjOf(objects, ids[i])] IN
       \E accepts \in IF \E i \in 1..Len(objs) : HoldsRef(objs[i]) THEN BOOLEAN ELSE {TRUE} :
           Executed(action, kind, ids, objs,
                    ActionExecute(action, store, kind, objs, accepts))
    /\ UNCHANGED <<exp, container, open, ctx, read_err, attachment_handler, exporters, ignore_unknown, policy, ready_objects,
                   relink_actions>>

\* container_streams: the streams of all attachments of all objects
ContainerStreams(objs) ==
    {objs[i].stream : i \in {j \in 1..Len(objs) : objs[j].attachments # <<>>}}

\* the orders in which a set can be iterated
Orders(S) ==
    {f \in [1..Cardinality(S) -> S] : \A i, j \in 1..Cardinality(S) : f[i] = f[j] => i = j}

RECURSIVE DeliveriesOfAnyStream(_, _, _, _)
\* Deliveries without the test of line 328
DeliveriesOfAnyStream(objs, disc, stream, k) ==
    IF k > Len(objs) THEN <<>>
    ELSE (IF objs[k].id \notin disc
          THEN [a \in 1..Len(objs[k].attachments) |->
                   [id |-> objs[k].id, key |-> objs[k].attachments[a].key,
                    att |-> objs[k].attachments[a].id, stream |-> stream]]
          ELSE <<>>)
         \o DeliveriesOfAnyStream(objs, disc, stream, k + 1)

RECURSIVE Deliveries(_, _, _, _)
\* the attachments of one stream that are delivered: those of the objects
\* that are not discarded, in object order
Deliveries(objs, disc, stream, k) ==
    IF k > Len(objs) THEN <<>>
    ELSE (IF objs[k].id \notin disc /\ objs[k].stream = stream
          THEN [a \in 1..Len(objs[k].attachments) |->
                   [id |-> objs[k].id, key |-> objs[k].attachments[a].key,
                    att |-> objs[k].attachments[a].id, stream |-> stream]]
          ELSE <<>>)
         \o Deliveries(objs, disc, stream, k + 1)

\* the events of one delivery whose stream is closed when the block ends
Delivered(d, called) ==
    <<Ev("open", "attachment", d.stream, d.att)>>
    \o (IF called THEN <<Ev("call", "attachment", d.stream, d.att)>> ELSE <<>>)
    \o <<Ev("close", "attachment", d.stream, d.att)>>

RECURSIVE DeliverLoopNoWith(_, _, _, _)
\* DeliverLoop with "f = zfile.open(...)" closed after the call instead of
\* the with block
DeliverLoopNoWith(w, ds, k, handler) ==
    IF k > Len(ds) \/ w.err # "" THEN w
    ELSE IF ds[k].id \notin DOMAIN w.instance_map
         THEN [w EXCEPT !.err = "KeyError",
                        !.handles = Append(@, Ev("open", "attachment", ds[k].stream, ds[k].att))]
    ELSE LET w1 == [w EXCEPT !.hooks = Append(@, Hook("process_attachment", ds[k].id,
                                                      w.instance_map[ds[k].id], ds[k].key))] IN
         DeliverLoopNoWith(
             IF handler THEN [w1 EXCEPT !.handles = @ \o Delivered(ds[k], TRUE)]
             ELSE [w1 EXCEPT !.err = "NotImplementedError",
                             !.handles = @ \o <<Ev("open", "attachment", ds[k].stream, ds[k].att),
                                                Ev("call", "attachment", ds[k].stream, ds[k].att)>>],
             ds, k + 1, handler)

RECURSIVE DeliverLoop(_, _, _, _)
\* "with zfile.open(f'attachments/{attachment.id}', 'r') as f:
\*      self.policy.process_attachment(self.__instance_map[obj.id], attachment.key, f)"
\* for each delivery; the base policy's method raises, and the with block
\* closes f however it is left
DeliverLoop(w, ds, k, handler) ==
    IF k > Len(ds) \/ w.err # "" THEN w
    ELSE IF ds[k].id \notin DOMAIN w.instance_map
         THEN [w EXCEPT !.err = "KeyError", !.handles = @ \o Delivered(ds[k], FALSE)]
    ELSE LET w1 == [w EXCEPT !.hooks = Append(@, Hook("process_attachment", ds[k].id,
                                                      w.instance_map[ds[k].id], ds[k].key)),
                             !.handles = @ \o Delivered(ds[k], TRUE)] IN
         DeliverLoop(IF handler THEN w1 ELSE [w1 EXCEPT !.err = "NotImplementedError"],
                     ds, k + 1, handler)

\* one stream of container_streams opened as an archive
OpenedArchive(w, n) == [w EXCEPT !.handles = Append(@, Ev("open", "attachments_archive", n, 0))]

\* the end of "with zipfile.ZipFile(stream, 'r') as zfile", however it is left
ClosedArchive(w, n) == [w EXCEPT !.handles = Append(@, Ev("close", "attachments_archive", n, 0))]

RECURSIVE ProcessAttachments(_, _, _, _, _)
\* "for stream in container_streams": open the stream as an archive and
\* deliver its attachments
ProcessAttachments(w, order, k, streams, handler) ==
    IF k > Len(order) \/ w.err # "" THEN w
    ELSE IF ~streams[order[k]].zip THEN [w EXCEPT !.err = "BadZipFile"]
    ELSE ProcessAttachments(
             ClosedArchive(DeliverLoop(OpenedArchive(w, order[k]),
                                       Deliveries(w.objects, w.discarded, order[k], 1),
                                       1, handler),
                           order[k]),
             order, k + 1, streams, handler)

\* the end of import_objects: "Process attachments", then
\* report.pk_map = self.__instance_map and return.  A set of streams is
\* iterated in no particular order.
Finish ==
    /\ pc = "finish"
    /\ \E order \in Orders(ContainerStreams(objects)) :
           LET w == ProcessAttachments(W, order, 1, container, attachment_handler) IN
           Commit([w EXCEPT !.report.pk_map = IF w.err = "" THEN instance_map ELSE @], "done")
    /\ UNCHANGED <<exp, container, open, ctx, read_err, attachment_handler, exporters, ignore_unknown, policy, ready_objects,
                   kind_queue, relink_actions, pending, execLog>>

Next ==
    \/ Deserialize
    \/ BuildGraph
    \/ GetReady
    \/ Resolve
    \/ Gather
    \/ ExecuteAction
    \/ Finish

Spec == Init /\ [][Next]_vars

SpecRelink == InitRelink /\ [][Next]_vars

SpecOverwrite == InitOverwrite /\ [][Next]_vars

SpecBatch == InitBatch /\ [][Next]_vars

\* the caller's calls and the steps of import_objects
NextRead ==
    \/ ReadEnter
    \/ ReadExit
    \/ CallImport
    \/ Next

SpecRead == InitRead /\ [][NextRead]_vars

\* ------------------------------------------------------------- claims
Terminated == pc \in {"done", "error"}

\* exceptions import_objects raises for its input before any batch is processed
InputErrors ==
    {"ModelClassNotRegistered", "ValueError: Unresolved reference", "CycleError"}

\* object o holds a non-weak reference to id that is nullable / not nullable
RefsTo(o, id, nullable) ==
    {r \in 1..Len(o.refs) :
        ~o.refs[r].weak /\ o.refs[r].nullable = nullable /\ id \in Range(o.refs[r].ids)}

\* the relink action chain executed for id returned False for it
RelinkDiscarded(id) ==
    \E e \in 1..Len(execLog) : \E i \in 1..Len(execLog[e].instances) :
        /\ execLog[e].err = ""
        /\ i <= Len(execLog[e].objects)
        /\ execLog[e].objects[i] = id
        /\ execLog[e].instances[i] = False

\* C1: no identity is both discarded and materialized, and no relink action is
\* executed on a record that is already in the discard set.
C1_DiscardedIsTerminal ==
    /\ discarded \cap DOMAIN instance_map = {}
    /\ \A e \in 1..Len(execLog) : Range(execLog[e].objects) \cap execLog[e].discarded = {}

\* C2: when a record's relink outcome is discard, every record with a non-weak,
\* non-nullable reference to it is never materialized, the import does not end
\* in an error, and once it has returned both records are reported discarded and
\* the records without references are materialized or discarded by their own action.
C2_CascadeDiscard ==
    \A t \in 1..Len(objects) : \A r \in 1..Len(objects) :
        (RelinkDiscarded(objects[t].id) /\ RefsTo(objects[r], objects[t].id, FALSE) # {})
        => /\ objects[r].id \notin DOMAIN instance_map
           /\ pc # "error"
           /\ pc = "done" =>
                /\ {objects[t].id, objects[r].id} \subseteq report.discarded_objects
                /\ \A u \in 1..Len(objects) :
                       objects[u].refs = <<>> =>
                           \/ objects[u].id \in DOMAIN instance_map
                           \/ objects[u].id \in discarded

\* the targets of a reference that are not discarded, in their original order
Surviving(ref) == SelectSeq(ref.ids, LAMBDA id : id \notin discarded)

\* object o is materialized with the field of its reference r nulled out
NulledOut(o, r) ==
    /\ o.id \in DOMAIN instance_map
    /\ o.refs[r].field \in DOMAIN o.fields.rel
    /\ o.fields.rel[o.refs[r].field] =
           IF o.refs[r].many
           THEN FMany([i \in 1..Len(Surviving(o.refs[r])) |->
                          instance_map[Surviving(o.refs[r])[i]]])
           ELSE FNull

\* C3: once the import has ended (other than by an error in its input), a record
\* that is not discarded and holds a nullable non-weak reference to a discarded
\* record is materialized with that field null (to-one) or holding the instances
\* of the surviving targets in order (collection).
C3_NullableReferenceNulled ==
    (Terminated /\ err \notin InputErrors) =>
        \A i \in 1..Len(objects) : \A r \in 1..Len(objects[i].refs) :
            ( /\ ~objects[i].refs[r].weak
              /\ objects[i].refs[r].nullable
              /\ Range(objects[i].refs[r].ids) \cap discarded # {}
              /\ objects[i].id \notin discarded )
            => NulledOut(objects[i], r)

\* C4: when import_objects has returned, every target of a non-weak,
\* non-nullable reference of a record that is not discarded is materialized.
C4_RetainedReferencesMaterialized ==
    pc = "done" =>
        \A i \in 1..Len(objects) : \A r \in 1..Len(objects[i].refs) :
            ( /\ objects[i].id \notin discarded
              /\ ~objects[i].refs[r].weak
              /\ ~objects[i].refs[r].nullable )
            => /\ Range(objects[i].refs[r].ids) \subseteq DOMAIN instance_map
               /\ Range(objects[i].refs[r].ids) \cap discarded = {}

\* an import that returned with a retained record whose non-nullable reference
\* has a target, while another record was discarded
C4_Witness ==
    /\ pc = "done"
    /\ discarded # {}
    /\ \E i \in 1..Len(objects) : \E r \in 1..Len(objects[i].refs) :
           /\ objects[i].id \notin discarded
           /\ ~objects[i].refs[r].weak
           /\ ~objects[i].refs[r].nullable
           /\ objects[i].refs[r].ids # <<>>

\* C5: for every materialized record, the relation field handed to its relink
\* action for a non-weak to-one reference whose target is not discarded is the
\* instance the identity map holds for the target.
C5_ToOneFieldIsMappedInstance ==
    \A e \in 1..Len(execLog) : \A i \in 1..Len(execLog[e].objects) :
        LET o == ObjOf(objects, execLog[e].objects[i]) IN
        o.id \in DOMAIN instance_map =>
            \A r \in 1..Len(o.refs) :
                ( /\ ~o.refs[r].weak
                  /\ ~o.refs[r].many
                  /\ o.refs[r].ids[1] \notin discarded )
                => /\ o.refs[r].ids[1] \in DOMAIN instance_map
                   /\ o.refs[r].field \in DOMAIN execLog[e].fields[i].rel
                   /\ execLog[e].fields[i].rel[o.refs[r].field] =
                          FOne(instance_map[o.refs[r].ids[1]])

\* a record created with a to-one reference to a record that was itself created,
\* after which the import returned
C5_Witness ==
    /\ pc = "done"
    /\ \E i \in 1..Len(objects) : \E r \in 1..Len(objects[i].refs) :
           /\ ~objects[i].refs[r].weak
           /\ ~objects[i].refs[r].many
           /\ objects[i].id \in DOMAIN instance_map
           /\ objects[i].refs[r].ids[1] \in DOMAIN instance_map
           /\ instance_map[objects[i].refs[r].ids[1]] \notin {Some(x) : x \in {Inst("a", 1, 1), Inst("b", 1, 1)}}
           /\ objects[i].fields.rel[objects[i].refs[r].field] =
                  FOne(instance_map[objects[i].refs[r].ids[1]])

\* the store the import started from
InitialStore == IF execLog = <<>> THEN store ELSE execLog[1].store

\* C6: with the default (Create-only) policy an import of records of one kind
\* returns with one new instance per loaded record: the store grows by the number
\* of records, nothing is discarded and every identity has its own new instance.
C6_CreateOnlyRoundTrip ==
    (policy = DefaultPolicy /\ Terminated) =>
        /\ pc = "done"
        /\ discarded = {}
        /\ DOMAIN instance_map = LoadedIds(objects)
        /\ \A x \in DOMAIN instance_map :
               /\ instance_map[x].t = "inst"
               /\ instance_map[x].v \notin InitialStore
               /\ instance_map[x].v \in store
               /\ \A y \in DOMAIN instance_map : instance_map[x] = instance_map[y] => x = y
        /\ Cardinality(store) = Cardinality(InitialStore) + Len(objects)

\* the instances of the starting store that entry e's i-th record matches by name
NameMatches(e, i) ==
    {x \in InstancesOf(e.store, e.kind) :
        e.fields[i].name # 0 /\ x.name = e.fields[i].name}

\* C7: after LinkByFields with a Create fallback has run, each record that
\* matches an existing instance is linked to it, and each record without a match
\* has its own newly created instance.
C7_LinkByFieldsOrCreate ==
    \A e \in 1..Len(execLog) :
        (execLog[e].action = WithFallback(LinkByFields, Create) /\ execLog[e].err = "") =>
            /\ Len(execLog[e].instances) = Len(execLog[e].objects)
            /\ \A i \in 1..Len(execLog[e].objects) :
                   IF NameMatches(execLog[e], i) # {}
                   THEN execLog[e].instances[i] = First(NameMatches(execLog[e], i))
                   ELSE /\ execLog[e].instances[i].t = "inst"
                        /\ execLog[e].instances[i].v \notin execLog[e].store
                        /\ \A j \in 1..Len(execLog[e].objects) :
                               (j # i /\ j <= Len(execLog[e].instances))
                               => execLog[e].instances[j] # execLog[e].instances[i]

\* the positions at which execute returned unresolved, and the k-th of them
NoneAt(own) == {i \in 1..Len(own) : own[i] = None}
KthOf(S, k) == CHOOSE x \in S : Cardinality({y \in S : y < x}) = k - 1

NoFallbackError == "RuntimeError: no fallback provided"

C10_OutcomesAreInstanceOrDiscard ==
    /\ \A x \in DOMAIN instance_map : instance_map[x] # None
    /\ \A e \in 1..Len(execLog) :
           execLog[e].err = "" =>
               \A i \in 1..Len(execLog[e].instances) : execLog[e].instances[i] # None

\* ---------------------------------------------------------------- C11
\* the stream holds an object document whose identity is among ids or is the
\* identity of an earlier object document of the stream
HasDuplicate(stream, ids) ==
    \E k \in 1..Len(stream.docs) :
        /\ stream.docs[k].seg = "object"
        /\ \/ stream.docs[k].id \in ids
           \/ \E j \in 1..(k - 1) :
                  /\ stream.docs[j].seg = "object"
                  /\ stream.docs[j].id = stream.docs[k].id

\* the step is a read() of one more stream
IsRead == Len(container') = Len(container) + 1

\* C11: across any sequence of read() calls no two loaded records share an
\* identity; a read() of a stream with an object document whose identity is
\* already loaded raises and leaves the container not open, and after a
\* read() that failed on a duplicate nothing is or gets materialized:
\* import_objects has nothing to run on but the not-open error.
C11_NoDuplicateIdentities ==
    /\ [](/\ \A i, j \in 1..Len(objects) : objects[i].id = objects[j].id => i = j
          /\ Cardinality(report.loaded_objects) = Len(objects)
          /\ read_err = "ValueError: Duplicate object" =>
                 /\ ~open
                 /\ instance_map = <<>> /\ store = {} /\ execLog = <<>>
                 /\ report.imported_objects = {}
                 /\ pc \in {"idle", "error"}
                 /\ pc = "error" => err = NotOpenError)
    /\ [][IsRead /\ HasDuplicate(container'[Len(container')], LoadedIds(objects)) =>
              read_err' # "" /\ ~open' /\ instance_map' = <<>>]_vars

\* a second read() failed on an identity the first one loaded, and
\* import_objects was called after it
C11_Witness ==
    /\ Len(container) = 2
    /\ read_err = "ValueError: Duplicate object"
    /\ \E i \in 1..Len(objects) : objects[i].stream = 1
    /\ HasDuplicate(container[2], {objects[i].id : i \in {j \in 1..Len(objects) : objects[j].stream = 1}})
    /\ pc = "error"

\* ---------------------------------------------------------------- C12
\* the references in `refs` name an identity that is not loaded
Dangling(refs) ==
    \E r \in 1..Len(refs) : \E k \in 1..Len(refs[r].ids) :
        refs[r].ids[k] \notin LoadedIds(objects)

UnresolvedError == "ValueError: Unresolved reference"

\* C12: a reference of a deserialized record to an identity that is not
\* loaded makes import_objects raise in the deserialization phase: the graph
\* is not built, no hook and no action has run, nothing is materialized.  No
\* import gets past deserialization with such a record of a registered kind,
\* and the error is raised for missing targets only: a target that is loaded
\* but discarded does not raise it.
C12_UnresolvedReferenceRaises ==
    /\ (pc \notin {"idle", "deserialize"}
            /\ \E i \in 1..Len(objects) : Dangling(objects[i].refs))
          => pc = "error" /\ err = UnresolvedError
    /\ pc \notin {"idle", "deserialize", "error"} =>
           \A i \in 1..Len(objects) :
               objects[i].id.kind \in exporters => ~Dangling(objects[i].data.refs)
    /\ err = UnresolvedError =>
           /\ pc = "error"
           /\ \E i \in 1..Len(objects) : Dangling(objects[i].refs)
           /\ sorter = SorterNew /\ ready_objects = <<>> /\ relink_actions = <<>>
           /\ hooks = <<>> /\ execLog = <<>>
           /\ instance_map = <<>> /\ store = {} /\ report.imported_objects = {}

\* the import raised for a missing target while another deserialized record
\* references a record that is loaded and discarded
C12_Witness ==
    /\ err = UnresolvedError
    /\ \E i \in 1..Len(objects) : \E r \in 1..Len(objects[i].refs) :
           \E k \in 1..Len(objects[i].refs[r].ids) :
               objects[i].refs[r].ids[k] \in discarded

\* ---------------------------------------------------------------- C13
\* the step is a call of import_objects
IsCallImport == pc = "idle" /\ pc' # "idle"

\* C13: import_objects raises RuntimeError unless a read() context is
\* active.  The container is open only inside a context: it is not open
\* before any read(), after a context was left and after a read() that
\* failed while parsing; a call made then ends at once with the RuntimeError
\* and changes nothing else.
C13_NotOpenOutsideRead ==
    /\ []((~ctx => ~open) /\ (container = <<>> => ~open) /\ (read_err # "" => ~open))
    /\ [][IsCallImport /\ ~ctx =>
              /\ pc' = "error" /\ err' = NotOpenError
              /\ UNCHANGED <<objects, discarded, instance_map, report, sorter, store,
                             hooks, execLog>>]_vars

\* import_objects raised the RuntimeError after a read() context that had
\* loaded records was left
C13_Witness ==
    /\ pc = "error" /\ err = NotOpenError
    /\ Len(container) = 1 /\ read_err = "" /\ objects # <<>>
    /\ ~ctx

\* ---------------------------------------------------------------- C14
\* C14: when import_objects returns, every loaded record is a key of
\* report.pk_map or is in report.discarded_objects, never both, and
\* report.imported_objects is the set of the values of pk_map.
C14_ReportPartition ==
    pc = "done" =>
        /\ \A id \in report.loaded_objects :
               (id \in DOMAIN report.pk_map) # (id \in report.discarded_objects)
        /\ DOMAIN report.pk_map \cap report.discarded_objects = {}
        /\ report.imported_objects = {report.pk_map[id] : id \in DOMAIN report.pk_map}

\* an import returned with records materialized and records discarded, by
\* the policy and by propagation
C14_Witness ==
    /\ pc = "done"
    /\ DOMAIN report.pk_map # {}
    /\ \E id \in report.discarded_objects : RelinkDiscarded(id)
    /\ \E id \in report.discarded_objects : ~RelinkDiscarded(id)

\* ---------------------------------------------------------------- C15
\* the calls of process_attachment, in order
AttachmentCalls == SelectSeq(hooks, LAMBDA h : h.hook = "process_attachment")

\* C15: in a successful import process_attachment is called exactly once
\* for each attachment of each record that is not discarded, with the
\* attachment's key and the instance the identity map holds for the record,
\* and never for an attachment of a discarded record.
C15_AttachmentsDeliveredOnce ==
    pc = "done" =>
        /\ \A i \in 1..Len(objects) :
               objects[i].id \notin report.discarded_objects =>
                   \A a \in 1..Len(objects[i].attachments) :
                       /\ Cardinality({n \in 1..Len(AttachmentCalls) :
                               /\ AttachmentCalls[n].id = objects[i].id
                               /\ AttachmentCalls[n].key = objects[i].attachments[a].key})
                          = Cardinality({b \in 1..Len(objects[i].attachments) :
                               objects[i].attachments[b].key = objects[i].attachments[a].key})
                       /\ objects[i].id \in DOMAIN instance_map
        /\ \A n \in 1..Len(AttachmentCalls) :
               /\ AttachmentCalls[n].id \notin report.discarded_objects
               /\ AttachmentCalls[n].id \in DOMAIN instance_map
               /\ AttachmentCalls[n].instance = instance_map[AttachmentCalls[n].id]
               /\ \E i \in 1..Len(objects) : \E a \in 1..Len(objects[i].attachments) :
                      /\ objects[i].id = AttachmentCalls[n].id
                      /\ objects[i].attachments[a].key = AttachmentCalls[n].key

\* an import returned after delivering the attachments of records read
\* from two streams, while a discarded record had attachments
C15_Witness ==
    /\ pc = "done"
    /\ \E m, n \in 1..Len(AttachmentCalls) :
           ObjOf(objects, AttachmentCalls[m].id).stream
               # ObjOf(objects, AttachmentCalls[n].id).stream
    /\ \E i \in 1..Len(objects) :
           objects[i].id \in report.discarded_objects /\ objects[i].attachments # <<>>

\* ---------------------------------------------------------------- C16
\* the loaded records of a kind without a registered codec
UnknownKind == {i \in 1..Len(objects) : objects[i].id.kind \notin exporters}

\* the action of some _execute call was given the record
ExecutedOn(id) ==
    \E e \in 1..Len(execLog) : \E i \in 1..Len(execLog[e].objects) :
        execLog[e].objects[i] = id

DiscardedUnknown ==
    IF ignore_unknown THEN {objects[t].id : t \in UnknownKind} ELSE {}

\* the targets of the non-weak references of the retained records in S
\* that are retained themselves
Targets(S) ==
    {id \in LoadedIds(objects) \ DiscardedUnknown :
        \E i \in 1..Len(objects) :
            /\ objects[i].id \in S \ DiscardedUnknown
            /\ \E r \in 1..Len(objects[i].refs) :
                   ~objects[i].refs[r].weak /\ id \in Range(objects[i].refs[r].ids)}

RECURSIVE Within(_, _)
\* what S reaches in at most n more steps
Within(S, n) == IF n = 0 THEN S ELSE Within(S \cup Targets(S), n - 1)

\* some retained record reaches itself through non-weak references
NonWeakCycle ==
    \E id \in LoadedIds(objects) : id \in Within(Targets({id}), Len(objects))

\* C17: if the non-weak references among the records that are not discarded
\* form a cycle (a record that references itself included), import_objects
\* raises the cycle error before any hook or action has run: nothing is
\* materialized and no record is discarded by the policy.  The error is
\* raised for such cycles only.
C17_CycleRaises ==
    /\ (pc \notin {"idle", "deserialize", "graph"} /\ NonWeakCycle
            /\ err \notin {"ModelClassNotRegistered", UnresolvedError, NotOpenError})
          => pc = "error" /\ err = "CycleError"
    /\ err = "CycleError" =>
           /\ pc = "error" /\ NonWeakCycle
           /\ hooks = <<>> /\ execLog = <<>> /\ relink_actions = <<>>
           /\ instance_map = <<>> /\ report.imported_objects = {}
           /\ discarded = DiscardedUnknown
           /\ report.discarded_objects = DiscardedUnknown

\* the cycle error was raised for a record that references itself, the
\* only cycle, while a record of an unregistered kind was discarded
C17_Witness ==
    /\ err = "CycleError"
    /\ discarded # {}
    /\ \E i \in 1..Len(objects) :
           /\ objects[i].id \in Targets({objects[i].id})
           /\ \A j \in 1..Len(objects) :
                  j # i => objects[j].id \notin Within(Targets({objects[j].id}), Len(objects))

\* ---------------------------------------------------------------- C18
\* C18: during an import the identity map only grows: an entry is never
\* removed and never bound to another instance.
C18_InstanceMapOnlyGrows ==
    [][\A id \in DOMAIN instance_map :
           id \in DOMAIN instance_map' /\ instance_map'[id] = instance_map[id]]_vars

\* records of two batches are in the identity map: the entries of the
\* first batch were kept while the second one was registered
C18_Witness ==
    /\ Cardinality(DOMAIN instance_map) >= 2
    /\ \E e, f \in 1..Len(execLog) :
           /\ e < f
           /\ Range(execLog[e].objects) \cap DOMAIN instance_map # {}
           /\ Range(execLog[f].objects) \cap DOMAIN instance_map # {}

\* ---------------------------------------------------------------- C19
\* the store an _execute call left: the one the next call found
StoreAfter(e) == IF e < Len(execLog) THEN execLog[e + 1].store ELSE store

\* the action of the chain whose execute() gave the outcome of position i:
\* the action itself, or its fallback for the positions it left unresolved
Linker(e, i) ==
    IF execLog[e].own[i] = None /\ execLog[e].fb_called
    THEN execLog[e].action[2] ELSE execLog[e].action[1]

\* position i of call e was linked to an existing instance
Linked(e, i) ==
    /\ execLog[e].err = ""
    /\ i \in 1..Len(execLog[e].instances) /\ i \in 1..Len(execLog[e].own)
    /\ execLog[e].instances[i].t = "inst"
    /\ Linker(e, i).type \in LinkClasses

\* the instances call e created through a Create fallback
CreatedBy(e) ==
    {execLog[e].instances[j].v :
        j \in {n \in 1..Len(execLog[e].instances) :
                  /\ n \in 1..Len(execLog[e].own)
                  /\ execLog[e].instances[n].t = "inst"
                  /\ Linker(e, n).type = "Create"}}

NamedFields(ow) == IF ow = AllFields THEN PlainFields ELSE ow \cap PlainFields

\* no other record of call e is linked to the instance of position i
OnlyLinked(e, i) ==
    \A j \in 1..Len(execLog[e].instances) :
        (j # i /\ execLog[e].instances[j].t = "inst") =>
            execLog[e].instances[j].v.pk # execLog[e].instances[i].v.pk

\* the row of position i after call e has the record's typed values in the
\* fields that ow names and the values it had before the call in the others
OverwrittenRow(e, i, ow) ==
    LET old == RowOf(execLog[e].store, execLog[e].instances[i].v)
        new == RowOf(StoreAfter(e), execLog[e].instances[i].v)
        f == execLog[e].fields[i] IN
    /\ new.name = IF "name" \in NamedFields(ow) /\ f.name # 0 THEN f.name ELSE old.name
    /\ new.isbn = IF "isbn" \in NamedFields(ow) /\ f.isbn # 0 THEN f.isbn ELSE old.isbn

\* C20: after a record was linked by an action with a non-empty overwrite
\* set, the fields of the linked instance that the set names (all typed
\* fields but the primary key for the all-fields marker) hold the record's
\* typed values in the store and its other fields are as before.
C20_OverwriteNamedFields ==
    \A e \in 1..Len(execLog) : \A i \in 1..Len(execLog[e].instances) :
        (Linked(e, i) /\ Linker(e, i).ow # {} /\ OnlyLinked(e, i)) =>
            OverwrittenRow(e, i, Linker(e, i).ow)

\* ---------------------------------------------------------------- C21
\* call e ran a LinkToInstance action without an exception
LinkedToInstance(e) ==
    execLog[e].action[1].type = "LinkToInstance" /\ execLog[e].err = ""

\* the instance of the kind of call e with the configured primary key
FixedInstance(e) ==
    CHOOSE x \in execLog[e].store :
        x.kind = execLog[e].kind /\ x.pk = execLog[e].action[1].pk

LastHeader == container[Len(container)].docs[1]

\* the header lists a kind the destination schema does not know
ListsUnknownKind(h) == h.object_kinds \ AllKinds # {}

\* C22: read() raises and leaves the container not open when the header's
\* version is not 1, and when the header lists a kind unknown to the
\* destination schema while ignore_unknown is not set; nothing of the stream
\* is loaded.  With ignore_unknown such a header does not fail the read: the
\* stream is read as one with a header of known kinds.
C22_HeaderChecks ==
    /\ []((container # <<>> /\ LastHeader.seg = "header") =>
            /\ LastHeader.version # 1 =>
                   read_err = "ValueError: Unknown container version" /\ ~open
            /\ (LastHeader.version = 1 /\ ListsUnknownKind(LastHeader) /\ ~ignore_unknown) =>
                   read_err = "ValueError: Unknown object types" /\ ~open
            /\ (LastHeader.version = 1 /\ ignore_unknown) =>
                   read_err \notin {"ValueError: Unknown container version",
                                    "ValueError: Unknown object types"})
    /\ [][IsRead =>
              LET h == container'[Len(container')].docs[1] IN
              /\ (h.version # 1 \/ (ListsUnknownKind(h) /\ ~ignore_unknown)) =>
                     read_err' # "" /\ ~open' /\ ~ctx' /\ objects' = objects /\ report' = report
              /\ (h.version = 1 /\ ListsUnknownKind(h) /\ ignore_unknown) =>
                     LET known == ReadDocuments(
                             [objects |-> objects, report |-> report, err |-> ""],
                             <<Header(1, h.object_kinds \cap AllKinds)>>
                                 \o Tail(container'[Len(container')].docs),
                             1, Len(container'), FALSE) IN
                     /\ read_err' = known.err /\ objects' = known.objects
                     /\ open' = (known.err = "")]_vars

\* after a read() that failed on the version of its header, a stream whose
\* header lists an unknown kind was read under ignore_unknown and its
\* record loaded: the container is open
C22_Witness ==
    /\ Len(container) = 2
    /\ container[1].docs[1].version # 1
    /\ ListsUnknownKind(LastHeader) /\ ignore_unknown
    /\ open /\ read_err = ""
    /\ \E i \in 1..Len(objects) : objects[i].stream = 2

\* ---------------------------------------------------------------- C23
\* every opening of `what` of stream n (attachment id) in `handles` has a
\* closing of it after it
Closed(what, n, id) ==
    \A i \in DOMAIN handles :
        handles[i] = Ev("open", what, n, id)
            => \E j \in (i + 1)..Len(handles) : handles[j] = Ev("close", what, n, id)

\* the attachment stream a call of process_attachment was given was opened
\* right before the call and is closed right after it
CallBracketed(i) ==
    /\ i > 1 /\ i < Len(handles)
    /\ handles[i - 1] = [handles[i] EXCEPT !.ev = "open"]
    /\ handles[i + 1] = [handles[i] EXCEPT !.ev = "close"]

\* C23: when a read() context is left, after a return or after an exception
\* of import_objects, the container is not open and the archive of the
\* session is closed (the step that leaves the context of an archive ends
\* with the closing of it); every attachment stream opened during delivery
\* is closed once the handler's call has returned or raised
C23_ContextExitCloses ==
    /\ [](/\ ~ctx => /\ ~open
                     /\ \A n \in 1..Len(container) :
                            Closed("archive", n, 0) /\ Closed("metadata", n, 0)
          /\ \A i \in DOMAIN handles :
                 /\ handles[i].what \in {"attachment", "attachments_archive"}
                        => Closed(handles[i].what, handles[i].stream, handles[i].id)
                 /\ handles[i].ev = "call" => CallBracketed(i))
    /\ [][ctx /\ ~ctx'
              => /\ ~open'
                 /\ container[Len(container)].zip
                        => /\ Len(handles') = Len(handles) + 1
                           /\ handles'[Len(handles')] = Ev("close", "archive", Len(container), 0)]_vars

\* a read() context was left after the attachment handler raised inside
\* import_objects, with an attachment stream handed to it
C23_Witness ==
    /\ ~ctx /\ pc = "error" /\ err = "NotImplementedError"
    /\ container[Len(container)].zip
    /\ \E i \in DOMAIN handles : handles[i].ev = "call"

\* ================================================================ export
\* ExportContainer over the models of test_app with the exporters of
\* test_app/export.py: Book (author, coauthor, tags), Author (books, tags), Tag

\* sizes of the source database and of the caller's use of the container
NumBooks == 2
NumAuthors == 2
NumTags == 1
MaxCalls == 2
MaxBatch == 2

\* ID.kind_for_model of the three models
BookKind == "test_app:book"
AuthorKind == "test_app:author"
TagKind == "test_app:tag"
ExportKinds == {BookKind, AuthorKind, TagKind}

\* the rows of the source database, as identities
Instances ==
    {ID(BookKind, p) : p \in 1..NumBooks} \cup {ID(AuthorKind, p) : p \in 1..NumAuthors}
    \cup {ID(TagKind, p) : p \in 1..NumTags}

\* a row of Book: author_id, coauthor_id (0 is NULL) and the pks of its tags
BookRow(author, coauthor, tags) == [author |-> author, coauthor |-> coauthor, tags |-> tags]

\* the ascending sequence of a set of pks: the order of a queryset
RECURSIVE Ascending(_)
Ascending(S) ==
    IF S = {} THEN <<>>
    ELSE LET m == CHOOSE x \in S : \A y \in S : x <= y IN <<m>> \o Ascending(S \ {m})

\* a relation field of an exporter with the values the instance has there:
\* null is the model field's null, many tells a collection from a to-one field
RelField(field, null, many, targets) ==
    [field |-> field, null |-> null, many |-> many, targets |-> targets]

\* the relation fields of an instance in the order of the exporter's
\* declaration; Author.books is the reverse collection of Book.author, and a
\* reverse relation is nullable
RelFields(db, id) ==
    IF id.kind = BookKind
    THEN LET row == db[id.pk] IN
         <<RelField("author", FALSE, FALSE, <<ID(AuthorKind, row.author)>>),
           RelField("coauthor", TRUE, FALSE,
                    IF row.coauthor = 0 THEN <<>> ELSE <<ID(AuthorKind, row.coauthor)>>),
           RelField("tags", FALSE, TRUE, [i \in 1..Len(row.tags) |-> ID(TagKind, row.tags[i])])>>
    ELSE IF id.kind = AuthorKind
    THEN LET books == Ascending({b \in 1..NumBooks : db[b].author = id.pk}) IN
         <<RelField("books", TRUE, TRUE, [i \in 1..Len(books) |-> ID(BookKind, books[i])]),
           RelField("tags", FALSE, TRUE, <<>>)>>
    ELSE <<>>

\* ExportPolicy.should_export_object of a policy that declines some instances
ShouldExportObject(policy_, id) == id \notin policy_.no_export

\* ExportPolicy.should_follow_reference of a policy that declines some fields
ShouldFollowReference(policy_, instance, target, field) == field \notin policy_.no_follow

\* ExportPolicy.get_attachments: one attachment for some instances
GetAttachments(policy_, id) ==
    IF id \in policy_.attachments THEN <<Att(id.pk, 1)>> ELSE <<>>

\* ForeignKey.to_representation and _BaseM2X.to_representation: the
\* identities of the targets the policy lets through; None for a to-one
\* field is the empty sequence
ToRepresentation(policy_, f) ==
    SelectSeq(f.targets, LAMBDA t : ShouldExportObject(policy_, t))

\* entries of the export log
Serialized(id) == [ev |-> "serialize", id |-> id]
Consulted(instance, target, field, null) ==
    [ev |-> "consult", id |-> instance, target |-> target, field |-> field, null |-> null]
Followed(instance, target, field, null) ==
    [ev |-> "follow", id |-> instance, target |-> target, field |-> field, null |-> null]

\* ExportContainer._should_follow_optional_reference: the answer, and whether
\* the policy was asked for it
PolicyAsked(e, target) == ~(e.ignore_unknown /\ target.kind \notin e.registry)
ShouldFollowOptionalReference(e, instance, target, field) ==
    IF ~PolicyAsked(e, target) THEN FALSE
    ELSE ShouldFollowReference(e.policy, instance, target, field)

\* outstanding_refs.setdefault(kind, set()).add(id), a dict in insertion order
AddOutstanding(out, id) ==
    IF \E i \in 1..Len(out) : out[i].kind = id.kind
    THEN [i \in 1..Len(out) |->
             IF out[i].kind = id.kind THEN [out[i] EXCEPT !.ids = @ \cup {id}] ELSE out[i]]
    ELSE Append(out, [kind |-> id.kind, ids |-> {id}])

\* the state of the loop over the fields of one instance: the container, the
\* outstanding references and the ObjectData under construction
FieldState(e, out, obj) == [e |-> e, out |-> out, obj |-> obj]

RECURSIVE CollectItemsUnasked(_, _, _, _, _)
\* the loop over the items of a collection with the policy asked for no field
CollectItemsUnasked(s, f, value, kept, k) ==
    IF k > Len(value) THEN [s |-> s, kept |-> kept]
    ELSE CollectItemsUnasked(
             [s EXCEPT !.out = AddOutstanding(@, value[k]),
                       !.e.log = Append(@, Followed(s.obj.id, value[k], f.field, f.null))],
             f, value, Append(kept, value[k]), k + 1)

RECURSIVE CollectItems(_, _, _, _, _)
\* "for item in list(value)": an item of a nullable field the container
\* should not follow is removed from the list, any other item is outstanding
CollectItems(s, f, value, kept, k) ==
    IF k > Len(value) THEN [s |-> s, kept |-> kept]
    ELSE LET item == value[k]
             asked == f.null /\ PolicyAsked(s.e, item)
             s1 == IF asked
                   THEN [s EXCEPT !.e.log = Append(@, Consulted(s.obj.id, item, f.field, f.null))]
                   ELSE s IN
         IF f.null /\ ~ShouldFollowOptionalReference(s.e, s.obj.id, item, f.field)
         THEN CollectItems(s1, f, value, kept, k + 1)
         ELSE CollectItems(
                  [s1 EXCEPT !.out = AddOutstanding(@, item),
                             !.e.log = Append(@, Followed(s.obj.id, item, f.field, f.null))],
                  f, value, Append(kept, item), k + 1)

\* "Collect references" for one field of the serialized data
CollectField(s, f) ==
    LET value == ToRepresentation(s.e.policy, f)
        c == CollectItems(s, f, value, <<>>, 1) IN
    IF value = <<>> THEN [s EXCEPT !.obj.data = Append(@, [field |-> f.field, value |-> <<>>])]
    ELSE [c.s EXCEPT !.obj.data = Append(@, [field |-> f.field, value |-> c.kept]),
                     !.obj.refs = IF f.many \/ c.kept # <<>>
                                  THEN Append(@, Ref(c.kept, f.field, f.null, FALSE, f.many))
                                  ELSE @]

RECURSIVE CollectReferences(_, _, _)
\* "for key, value in list(serialized_data.items())"
CollectReferences(s, fields, k) ==
    IF k > Len(fields) THEN s
    ELSE CollectReferences(CollectField(s, fields[k]), fields, k + 1)

\* self._objects[id] = serialized_obj: a dict keeps the place of a key it has
StoreObject(objs, obj) ==
    IF \E i \in 1..Len(objs) : objs[i].id = obj.id
    THEN [i \in 1..Len(objs) |-> IF objs[i].id = obj.id THEN obj ELSE objs[i]]
    ELSE Append(objs, obj)

\* one turn of "for instance, serialized_data in zip(objects, exporter.data)"
SerializeInstance(e, out, id) ==
    LET e1 == [e EXCEPT !.instance_map = @ \cup {id}, !.log = Append(@, Serialized(id))]
        s == CollectReferences(
                 FieldState(e1, out, [id |-> id, data |-> <<>>, refs |-> <<>>,
                                      attachments |-> <<>>]),
                 RelFields(e.db, id), 1)
        obj == [s.obj EXCEPT !.attachments = GetAttachments(e.policy, id)] IN
    [e |-> [s.e EXCEPT !.objects = StoreObject(@, obj)], out |-> s.out]

RECURSIVE SerializeLoop(_, _, _, _)
SerializeLoop(e, out, ids, k) ==
    IF k > Len(ids) THEN [e |-> e, out |-> out]
    ELSE LET s == SerializeInstance(e, out, ids[k]) IN SerializeLoop(s.e, s.out, ids, k + 1)

MixedKindsError == "ValueError: Objects must be of the same class"

\* the frame of an export_objects call that has nothing to do
Returning(e) == [e EXCEPT !.stack = <<<<>>>> \o @]

\* the exception leaves every frame
Raised(e, error) == [e EXCEPT !.stack = <<>>, !.err = error]

\* export_objects without the test of lines 45-46
ExportObjectsBodyAnyKinds(e, ids) ==
    IF ids = <<>> THEN Returning(e)
    ELSE LET todo == SelectSeq(ids, LAMBDA x : x \notin e.instance_map
                                               /\ ShouldExportObject(e.policy, x)) IN
         IF todo = <<>> THEN Returning(e)
         ELSE IF todo[1].kind \notin e.registry THEN Raised(e, "ModelClassNotRegistered")
         ELSE LET s == SerializeLoop(e, <<>>, todo, 1) IN
              [s.e EXCEPT !.stack = <<s.out>> \o @]

\* export_objects(ids) up to its loop over outstanding_refs: the new frame
\* holds the outstanding references, kind by kind
ExportObjectsBody(e, ids) ==
    IF ids = <<>> THEN Returning(e)
    ELSE IF Cardinality({ids[i].kind : i \in 1..Len(ids)}) > 1 THEN Raised(e, MixedKindsError)
    ELSE LET todo == SelectSeq(ids, LAMBDA x : x \notin e.instance_map
                                               /\ ShouldExportObject(e.policy, x)) IN
         IF todo = <<>> THEN Returning(e)
         ELSE IF todo[1].kind \notin e.registry THEN Raised(e, "ModelClassNotRegistered")
         ELSE LET s == SerializeLoop(e, <<>>, todo, 1) IN
              [s.e EXCEPT !.stack = <<s.out>> \o @]

\* the identities stored in the container: self._objects.keys()
ExportedIds(e) == {e.objects[i].id : i \in 1..Len(e.objects)}

\* model_cls.objects.filter(pk__in=[x.pk for x in ids])
Queryset(kind, ids) ==
    LET pks == Ascending({x.pk : x \in ids}) IN [i \in 1..Len(pks) |-> ID(kind, pks[i])]

\* the lists a caller passes to export_objects: any instances, in any order,
\* also of several kinds and with an instance more than once
Batches == UNION {[1..n -> Instances] : n \in 0..MaxBatch}

\* an ExportContainer after __init__ over a database
NewExport(db, registry, ignore, policy_) ==
    [db |-> db, registry |-> registry, ignore_unknown |-> ignore, policy |-> policy_,
     instance_map |-> {}, objects |-> <<>>, stack |-> <<>>, log |-> <<>>,
     calls |-> 0, args |-> <<>>, err |-> "", out |-> [written |-> FALSE, format |-> "",
                                                       bytes |-> <<>>, err |-> ""]]

\* the databases: both books by the first author, the first with or without
\* a coauthor and a tag
Databases ==
    {[b \in 1..NumBooks |-> IF b = 1 THEN BookRow(1, c, t) ELSE BookRow(1, 0, <<>>)] :
        c \in {0, NumAuthors}, t \in {<<>>, <<1>>}}

\* the policies: deterministic answers
ExportPolicies ==
    {[no_export |-> ne, no_follow |-> nf, attachments |-> at] :
        ne \in {{}, {ID(AuthorKind, NumAuthors)}, {ID(TagKind, 1)}},
        nf \in {{}, {"coauthor"}, {"books"}},
        at \in {{}, {ID(BookKind, 1)}}}

importVars == <<handles, container, open, ctx, read_err, attachment_handler, hooks, exporters,
                ignore_unknown, policy, store, objects, discarded, instance_map, report,
                sorter, ready_objects, kind_queue, relink_actions, pending, execLog, pc, err>>

\* an export session: a fresh ExportContainer, no import going on
InitExport ==
    /\ \E db \in Databases, pol \in ExportPolicies, ignore \in BOOLEAN,
          registry \in {ExportKinds, ExportKinds \ {AuthorKind}} :
           /\ ignore => registry # ExportKinds
           /\ exp = NewExport(db, registry, ignore, pol)
    /\ handles = <<>>
    /\ container = <<>>
    /\ open = FALSE
    /\ ctx = FALSE
    /\ read_err = ""
    /\ hooks = <<>>
    /\ objects = <<>>
    /\ discarded = {}
    /\ instance_map = <<>>
    /\ report = NoReport
    /\ sorter = SorterNew
    /\ ready_objects = <<>>
    /\ kind_queue = <<>>
    /\ relink_actions = <<>>
    /\ pending = {}
    /\ execLog = <<>>
    /\ pc = "idle"
    /\ err = ""
    /\ exporters = {}
    /\ ignore_unknown = FALSE
    /\ attachment_handler = FALSE
    /\ policy = {}
    /\ store = {}

\* the caller calls export_objects
ExportObjects ==
    /\ exp.stack = <<>> /\ exp.calls < MaxCalls
    /\ \E ids \in Batches :
           exp' = ExportObjectsBody([exp EXCEPT !.calls = @ + 1, !.args = ids, !.err = ""], ids)
    /\ UNCHANGED importVars

\* "ids = ids - self._objects.keys()" and, if ids, the call of export_objects
\* for the first kind of the frame
ExportKind(e, frame) ==
    LET ids == frame[1].ids \ ExportedIds(e)
        e1 == [e EXCEPT !.stack = <<Tail(frame)>> \o Tail(@)] IN
    IF ids = {} THEN e1 ELSE ExportObjectsBody(e1, Queryset(frame[1].kind, ids))

\* "for kind, ids in outstanding_refs.items()": the next kind of the running
\* call, exported by a call of export_objects when some of its identities are
\* not in the container
ExportOutstanding ==
    /\ exp.stack # <<>> /\ Head(exp.stack) # <<>>
    /\ exp' = ExportKind(exp, Head(exp.stack))
    /\ UNCHANGED importVars

\* the running call of export_objects returns
ExportReturn ==
    /\ exp.stack # <<>> /\ Head(exp.stack) = <<>>
    /\ exp' = [exp EXCEPT !.stack = Tail(@)]
    /\ UNCHANGED importVars

\* the references an importer finds in the data of a written document
WrittenRefs(data) ==
    LET with == SelectSeq(data, LAMBDA d : d.value # <<>>) IN
    [i \in 1..Len(with) |-> Ref(with[i].value, with[i].field, TRUE, FALSE, FALSE)]

\* the document of an object: '_': 'object', id, data, attachments
WrittenDoc(obj) ==
    [seg |-> "object", id |-> obj.id,
     data |-> [name |-> obj.id.pk, isbn |-> 0, refs |-> WrittenRefs(obj.data)],
     attachments |-> obj.attachments]

\* the entries "attachments/<id>" of the archive, after the documents
RECURSIVE WrittenAttachments(_, _)
WrittenAttachments(objs, k) ==
    IF k > Len(objs) THEN <<>>
    ELSE [a \in 1..Len(objs[k].attachments) |->
             [seg |-> "attachment", id |-> objs[k].attachments[a].id]]
         \o WrittenAttachments(objs, k + 1)

AttachmentsNeedZip == "ValueError: File attachments require a ZIP based container format"

\* ExportContainer._write with the test of line 134 only when the documents
\* are written
WriteUnchecked(e, format) ==
    LET docs == <<Header(1, {e.objects[i].id.kind : i \in 1..Len(e.objects)})>>
                \o [i \in 1..Len(e.objects) |-> WrittenDoc(e.objects[i])] IN
    IF format = "YAML"
    THEN IF \E i \in 1..Len(e.objects) : e.objects[i].attachments # <<>>
         THEN [written |-> TRUE, format |-> format, bytes |-> docs, err |-> AttachmentsNeedZip]
         ELSE [written |-> TRUE, format |-> format, bytes |-> docs, err |-> ""]
    ELSE [written |-> TRUE, format |-> format,
          bytes |-> docs \o WrittenAttachments(e.objects, 1), err |-> ""]

\* ExportContainer.write / _write into a fresh stream: what the stream holds
\* afterwards and the exception raised
Write(e, format) ==
    LET docs == <<Header(1, {e.objects[i].id.kind : i \in 1..Len(e.objects)})>>
                \o [i \in 1..Len(e.objects) |-> WrittenDoc(e.objects[i])] IN
    IF format = "YAML"
    THEN IF \E i \in 1..Len(e.objects) : e.objects[i].attachments # <<>>
         THEN [written |-> TRUE, format |-> format, bytes |-> <<>>, err |-> AttachmentsNeedZip]
         ELSE [written |-> TRUE, format |-> format, bytes |-> docs, err |-> ""]
    ELSE [written |-> TRUE, format |-> format,
          bytes |-> docs \o WrittenAttachments(e.objects, 1), err |-> ""]

\* the caller writes the container, once, between calls of export_objects
ExportWrite ==
    /\ exp.stack = <<>> /\ ~exp.out.written
    /\ \E format \in {"YAML", "ZIP"} : exp' = [exp EXCEPT !.out = Write(exp, format)]
    /\ UNCHANGED importVars

NextExport == ExportObjects \/ ExportOutstanding \/ ExportReturn \/ ExportWrite

SpecExport == InitExport /\ [][NextExport]_vars

\* ---------------------------------------------------------------- C24
\* some exported record has an attachment
HasAttachments(e) == \E i \in 1..Len(e.objects) : e.objects[i].attachments # <<>>

\* the step is a call of write()
IsWrite == ~exp.out.written /\ exp'.out.written

\* C24: write() in the plain format of a container in which some record has
\* an attachment raises, and the output stream holds no byte afterwards
C24_PlainFormatRejectsAttachments ==
    [][IsWrite /\ exp'.out.format = "YAML" /\ HasAttachments(exp)
           => exp'.out.err = AttachmentsNeedZip /\ exp'.out.bytes = <<>>]_vars

\* a container with a record and its attachment was written in the plain
\* format, and the write raised
C24_Witness ==
    /\ exp.out.written /\ exp.out.format = "YAML" /\ exp.out.err = AttachmentsNeedZip
    /\ exp.calls = 1 /\ exp.err = "" /\ HasAttachments(exp)

\* ---------------------------------------------------------------- C25
\* the list has instances of more than one kind
Mixed(ids) == Cardinality({ids[i].kind : i \in 1..Len(ids)}) > 1

\* the step is a call of export_objects by the caller
IsExportCall == exp'.calls = exp.calls + 1

\* C25: export_objects with instances of more than one kind raises, and the
\* container is as before: the same records, the same exported identities
C25_MixedKindsRaise ==
    [][IsExportCall /\ Mixed(exp'.args)
           => /\ exp'.err = MixedKindsError /\ exp'.stack = <<>>
              /\ exp'.objects = exp.objects /\ exp'.instance_map = exp.instance_map
              /\ exp'.log = exp.log]_vars

\* a container that holds records was given a list of two kinds, one of them
\* not exported yet, and raised
C25_Witness ==
    /\ exp.calls = 2 /\ exp.err = MixedKindsError /\ exp.objects # <<>>
    /\ Mixed(exp.args) /\ \E i \in 1..Len(exp.args) : exp.args[i] \notin exp.instance_map

\* ---------------------------------------------------------------- C26
\* how often the identity was serialized so far
TimesSerialized(id) == Cardinality({i \in DOMAIN exp.log : exp.log[i] = Serialized(id)})

\* how many records of the container have the identity
TimesStored(id) == Cardinality({i \in DOMAIN exp.objects : exp.objects[i].id = id})

\* a call of export_objects is running
Exporting == exp.stack # <<>>

RECURSIVE OutstandingKinds(_)
\* the kinds the running calls have still to look at
OutstandingKinds(stack) ==
    IF stack = <<>> THEN 0 ELSE Len(Head(stack)) + OutstandingKinds(Tail(stack))

\* what is left to do: the instances not marked as exported weigh more than
\* a new frame with an entry for every kind, an outstanding kind more than
\* a frame
Remaining(e) ==
    (Cardinality(Instances) - Cardinality(e.instance_map)) * (2 * Cardinality(ExportKinds) + 2)
    + 2 * OutstandingKinds(e.stack) + Len(e.stack)

\* C26: whatever export_objects calls are made on a container, no identity
\* is serialized more than once and none is stored more than once, and every
\* call of export_objects comes to its end, also over the cycle of
\* Book.author and Author.books: each step of a running call leaves less to
\* do, and what is left to do is a natural number
C26_ExportedOnceAndTerminates ==
    /\ [](/\ \A id \in Instances : TimesSerialized(id) <= 1 /\ TimesStored(id) <= 1
          /\ Remaining(exp) >= 0)
    /\ [][Exporting => Remaining(exp') < Remaining(exp)]_vars

\* ---------------------------------------------------------------- C27
\* the last call of export_objects has returned
Returned == exp.calls > 0 /\ exp.stack = <<>> /\ exp.err = ""

\* every target of every reference recorded on a record of the container is
\* a record of the container
ReferenceClosed(e) ==
    \A i \in 1..Len(e.objects) : \A r \in 1..Len(e.objects[i].refs) :
        \A k \in 1..Len(e.objects[i].refs[r].ids) :
            e.objects[i].refs[r].ids[k] \in ExportedIds(e)

\* the objects an import has after it deserialized the written documents
Reimported(e) ==
    [i \in 1..Len(e.objects) |-> DeserializeObject(ObjectData(WrittenDoc(e.objects[i])))]

\* C27: when export_objects has returned, the container is reference-closed,
\* and an import of the documents written from it finds no unresolved
\* reference
C27_ReferenceClosed ==
    Returned => ReferenceClosed(exp) /\ ~UnresolvedReference(Reimported(exp))

\* ---------------------------------------------------------------- C28
\* the value the record has for the field in its serialized data
DataOf(o, field) == (CHOOSE d \in {o.data[i] : i \in 1..Len(o.data)} : d.field = field).value

\* the identities of the references recorded on the record for the field
RefTargets(o, field) ==
    UNION {{o.refs[r].ids[k] : k \in 1..Len(o.refs[r].ids)} :
               r \in {n \in 1..Len(o.refs) : o.refs[n].field = field}}

\* the target was made outstanding for this reference
WasFollowed(o, t, f) ==
    \E i \in DOMAIN exp.log : exp.log[i] = Followed(o.id, t, f.field, f.null)

\* the target is in the serialized value, recorded as a reference and was
\* made outstanding
Kept(o, t, f) ==
    /\ \E k \in 1..Len(DataOf(o, f.field)) : DataOf(o, f.field)[k] = t
    /\ t \in RefTargets(o, f.field)
    /\ WasFollowed(o, t, f)

\* it is in none of them: a to-one field is null, a collection lacks the item
Dropped(o, t, f) ==
    /\ \A k \in 1..Len(DataOf(o, f.field)) : DataOf(o, f.field)[k] # t
    /\ t \notin RefTargets(o, f.field)
    /\ ~WasFollowed(o, t, f)

\* C28: should_follow_reference is asked about nullable relation fields
\* only.  A reference of a nullable field that is declined is serialized as
\* null or taken out of the collection, is not recorded and does not make
\* its target outstanding; an identity in a field that is not nullable is
\* always recorded and made outstanding, whatever the policy answers
C28_OptionalReferences ==
    /\ \A i \in DOMAIN exp.log : exp.log[i].ev = "consult" => exp.log[i].null
    /\ \A i \in 1..Len(exp.objects) :
           LET o == exp.objects[i]
               fields == RelFields(exp.db, o.id) IN
           \A n \in 1..Len(fields) :
               LET value == ToRepresentation(exp.policy, fields[n]) IN
               \A k \in 1..Len(value) :
                   /\ fields[n].null
                      /\ ~ShouldFollowOptionalReference(exp, o.id, value[k], fields[n].field)
                          => Dropped(o, value[k], fields[n])
                   /\ ~fields[n].null => Kept(o, value[k], fields[n])

\* a book was exported under a policy that declines its coauthor: the
\* policy was asked, the author was followed and is in the container, the
\* coauthor is not
C28_Witness ==
    /\ Returned /\ exp.policy.no_follow = {"coauthor"} /\ exp.policy.no_export = {}
    /\ exp.db[1].coauthor = NumAuthors
    /\ ID(BookKind, 1) \in ExportedIds(exp)
    /\ ID(AuthorKind, 1) \in ExportedIds(exp)
    /\ ID(AuthorKind, NumAuthors) \notin ExportedIds(exp)
    /\ \E i \in DOMAIN exp.log :
           exp.log[i] = Consulted(ID(BookKind, 1), ID(AuthorKind, NumAuthors), "coauthor", TRUE)

\* ---------------------------------------------------------------- C29
\* the calls of relink_object made so far
RelinkCalls == SelectSeq(hooks, LAMBDA h : h.hook = "relink_object")

\* the records of the current batch the policy was asked about, in the
\* order of relink_actions
Asked ==
    [i \in 1..Len(relink_actions) |->
        RelinkCalls[Len(RelinkCalls) - Len(relink_actions) + i].id]

\* the records for which the policy returned the action, in batch order
ReturnedFor(action) ==
    LET mine == SelectSeq([i \in 1..Len(relink_actions) |-> [a |-> relink_actions[i], id |-> Asked[i]]],
                          LAMBDA x : x.a = action) IN
    [i \in 1..Len(mine) |-> mine[i].id]

\* C29: every _execute call of a batch is made for exactly the records for
\* which relink_object returned that action, also when records of the batch
\* were cascade-discarded while references were resolved
C29_ExecutedUnderOwnAction ==
    [][pc = "execute" /\ Len(execLog') = Len(execLog) + 1
           => execLog'[Len(execLog')].objects
                  = ReturnedFor(execLog'[Len(execLog')].action)]_vars

\* ---------------------------------------------------------------- C30
\* the references of the record that make it a cascade discard: not weak,
\* not nullable, with a discarded target
BrokenRefs(o) ==
    {r \in 1..Len(o.refs) :
        /\ ~o.refs[r].weak /\ ~o.refs[r].nullable
        /\ Range(o.refs[r].ids) \cap discarded # {}}

\* the first of them
FirstBroken(o) == CHOOSE r \in BrokenRefs(o) : \A q \in BrokenRefs(o) : r <= q

\* C30: reference resolution discards a record of the batch that has a
\* non-nullable non-weak reference to a discarded record and marks it done
\* in the sorter without an error, however many such references it has; the
\* references behind the first of them are left as they were, and the
\* import goes on to gather the relink actions of the batch
C30_CascadeDiscardedOnce ==
    [][pc = "resolve"
           => \A n \in 1..Len(CurObjects) :
                  LET o == ObjOf(objects, CurObjects[n]) IN
                  BrokenRefs(o) # {}
                      => /\ o.id \in discarded'
                         /\ sorter'.npred[o.id] = NODE_DONE
                         /\ pc' = "gather" /\ err' = ""
                         /\ \A r \in (FirstBroken(o) + 1)..Len(o.refs) :
                                ~o.refs[r].weak
                                    => ObjOf(objects', o.id).fields.rel[o.refs[r].field] = FRef]_vars

\* ---------------------------------------------------------------- C31
UntangleError == "RuntimeError: Could not untangle the reference graph"

\* the batches still to come: the records the sorter has not marked done
NotDone == {n \in DOMAIN sorter.npred : sorter.npred[n] # NODE_DONE}

\* C31: an import whose container was deserialized and has no non-weak
\* cycle never ends in an error: the empty-ready-batch error is not raised,
\* every ready batch is a non-empty set of records not yet marked done, a
\* batch that was processed has all its records marked done (so the loop
\* ends after at most one batch per record), and when import_objects has
\* returned every loaded record is materialized or discarded
C31_ImportCompletes ==
    /\ [](/\ err # UntangleError
          /\ pc = "error" => err \in InputErrors
          /\ pc \in {"resolve", "gather", "execute"} => ready_objects # <<>>
          /\ pc = "done" => LoadedIds(objects) \subseteq (DOMAIN instance_map) \cup discarded)
    /\ [][(pc = "ready" /\ pc' = "resolve")
              => (Range(ready_objects') \subseteq NotDone)]_vars
    /\ [][(pc \in {"resolve", "gather", "execute"} /\ pc' = "ready")
              => (Range(ready_objects) \cap NotDone' = {})]_vars

\* ---------------------------------------------------------------- C32
PkUnknownError == "ValueError: Consistency error: PK still unknown"

\* the targets of the non-weak references of a record that are not discarded
LiveTargets(id) ==
    LET refs == ObjOf(objects, id).refs IN
    {t \in LoadedIds(objects) \ discarded :
        \E r \in 1..Len(refs) : ~refs[r].weak /\ t \in Range(refs[r].ids)}

InInputOrder(type, ids, fields, out) ==
    /\ Len(out) = Len(ids)
    /\ \A k \in 1..Len(ids) :
           CASE type = "Create" ->
                    /\ out[k].t = "inst"
                    /\ out[k].v.name = fields[k].name
                    /\ out[k].v.isbn = fields[k].isbn
             [] type = "Discard" -> out[k] = False
             [] type = "LogToConsole" -> out[k] = None
             [] type = "LinkByFields" ->
                    out[k] = None \/ (out[k].t = "inst" /\ out[k].v.name = fields[k].name)
             [] type = "LinkByPK" ->
                    out[k] = None \/ (out[k].t = "inst" /\ out[k].v.pk = ids[k].pk)
             [] OTHER -> out[k].t = "inst"

\* C33: every execute of a built-in relink action that returned (the action
\* itself, and its fallback on the unresolved records) gave exactly one
\* outcome per input record, in input order, whatever the records' typed
\* field mappings are
C33_OneOutcomePerRecord ==
    \A n \in 1..Len(execLog) :
        LET e == execLog[n]
            fieldsOf(id) == e.fields[CHOOSE k \in 1..Len(e.objects) : e.objects[k] = id] IN
        e.err = ""
            => /\ InInputOrder(e.action[1].type, e.objects, e.fields, e.own)
               /\ e.fb_called
                      => InInputOrder(e.action[2].type, e.fb_objects,
                                      [k \in 1..Len(e.fb_objects) |-> fieldsOf(e.fb_objects[k])],
                                      e.fb_out)

\* ---------------------------------------------------------------- C34
\* import_objects from "Build object graph" to the end of the batch loop as
\* a function of the order of the records: pol is the action chain
\* policy.relink_object returns for each record, todo the order in which a
\* set of actions is iterated, accepts what the store does with an
\* unresolved Ref

RECURSIVE RunActions(_, _, _, _, _, _, _)
\* "for action in set(relink_actions)" from the k-th action of todo on
RunActions(w, kind, ids, actions, todo, k, accepts) ==
    IF k > Len(todo) \/ w.err # "" THEN w
    ELSE LET action_objects == ActionObjects(actions, ids, todo[k])
             objs == [i \in 1..Len(action_objects) |-> ObjOf(w.objects, action_objects[i])]
             r == ActionExecute(todo[k], w.store, kind, objs, accepts)
             w0 == [w EXCEPT !.store = r.store,
                             !.hooks = @ \o [i \in 1..Len(action_objects) |->
                                 Hook("postprocess_object_fields", action_objects[i], None, 0)]] IN
         RunActions(IF r.err # "" THEN [w0 EXCEPT !.err = r.err]
                    ELSE RegisterLoop(w0, action_objects, r.out, 1),
                    kind, ids, actions, todo, k + 1, accepts)

RECURSIVE RunKinds(_, _, _, _, _, _, _)
\* "for kind, objects in kind_map.items()" from the k-th kind on: resolve,
\* gather and execute
RunKinds(w, ready, kinds, k, pol, todo, accepts) ==
    IF k > Len(kinds) \/ w.err # "" THEN w
    ELSE LET ids == OfKind(ready, kinds[k])
             w1 == ResolveObjects(w, ids, 1)
             survivors == SelectSeq(ids, LAMBDA id : id \notin w1.discarded)
             actions == [i \in 1..Len(survivors) |-> pol[survivors[i]]]
             w2 == [w1 EXCEPT !.hooks = @
                        \o [i \in 1..Len(ids) |->
                               Hook("preprocess_object_fields", ids[i], None, 0)]
                        \o [i \in 1..Len(survivors) |->
                               Hook("relink_object", survivors[i], None, 0)]] IN
         IF w1.err # "" THEN w1
         ELSE RunKinds(RunActions(w2, kinds[k], ids, actions,
                                  SelectSeq(todo, LAMBDA a : a \in Range(actions)), 1, accepts),
                       ready, kinds, k + 1, pol, todo, accepts)

RECURSIVE RunBatches(_, _, _, _)
\* "while sorter.is_active()"
RunBatches(w, pol, todo, accepts) ==
    IF w.err # "" \/ ~SorterIsActive(w.sorter) THEN w
    ELSE IF w.sorter.ready = <<>>
         THEN [w EXCEPT !.err = "RuntimeError: Could not untangle the reference graph"]
    ELSE RunBatches(RunKinds([w EXCEPT !.sorter = SorterGetReady(@)], w.sorter.ready,
                             KindsOf(w.sorter.ready), 1, pol, todo, accepts),
                    pol, todo, accepts)

\* the graph of the deserialized records objs and the batch loop over it
RunImport(w, objs, pol, todo, accepts) ==
    LET s == SorterPrepare(BuildSorter(SorterNew, objs, w.discarded, 1)) IN
    IF HasCycle(s) THEN [w EXCEPT !.objects = objs, !.sorter = s, !.err = "CycleError"]
    ELSE RunBatches([w EXCEPT !.objects = objs, !.sorter = s], pol, todo, accepts)

\* what the claim calls the outcome of an import
Outcome(w) ==
    [discarded |-> w.discarded, materialized |-> DOMAIN w.instance_map, success |-> w.err = ""]

\* one order in which the actions of the policy are iterated
SetOrder == CHOOSE f \in Orders(policy) : TRUE

\* C34: for deserialized records, a policy that returns a fixed action chain
\* for each record and a fixed iteration order of action sets, the import of
\* the records in any other order has the same outcome (discarded set,
\* materialized set, success)
C34_OrderIndependent ==
    pc = "graph"
        => \A pol \in [LoadedIds(objects) -> policy], accepts \in BOOLEAN :
           \A perm \in Orders(1..Len(objects)) :
               Outcome(RunImport(W, [i \in 1..Len(objects) |-> objects[perm[i]]],
                                 pol, SetOrder, accepts))
                   = Outcome(RunImport(W, objects, pol, SetOrder, accepts))

\* ---------------------------------------------------------------- C35
\* the policy hooks called in a step
NewHooks == {hooks'[k] : k \in (Len(hooks) + 1)..Len(hooks')}

\* C35: no policy hook (preprocess_object_fields, relink_object,
\* postprocess_object_fields, post_object_import) is called for a record that
\* was discarded before the call
C35_NoHookForDiscarded ==
    [][\A h \in NewHooks : h.id \notin discarded]_vars

\* ---------------------------------------------------------------- C36
\* the calls of the policy method `name` for record id, as positions in hooks
CallsOf(name, id) == {k \in 1..Len(hooks) : hooks[k].hook = name /\ hooks[k].id = id}

\* the executions of record id: the entry of execLog and the position in it
ExecutionsOf(id) ==
    {x \in (1..Len(execLog)) \X (1..Len(objects)) :
        x[2] <= Len(execLog[x[1]].objects) /\ execLog[x[1]].objects[x[2]] = id}

\* C36: for every record an action was executed on, preprocess_object_fields,
\* relink_object and postprocess_object_fields were each called exactly once
\* for it and in this order, the record was executed once, and
\* post_object_import is called for it after them, once when its outcome is
\* an instance and never otherwise
C36_HooksInOrderOnce ==
    \A n \in 1..Len(execLog) : \A k \in 1..Len(execLog[n].objects) :
        LET e == execLog[n]
            id == e.objects[k]
            pre == CallsOf("preprocess_object_fields", id)
            rel == CallsOf("relink_object", id)
            post == CallsOf("postprocess_object_fields", id)
            imp == CallsOf("post_object_import", id) IN
        /\ Cardinality(pre) = 1 /\ Cardinality(rel) = 1 /\ Cardinality(post) = 1
        /\ \A a \in pre, b \in rel, c \in post, d \in imp : a < b /\ b < c /\ c < d
        /\ Cardinality(ExecutionsOf(id)) = 1
        /\ Cardinality(imp) <= 1
        /\ (k <= Len(e.instances) /\ e.instances[k].t # "inst") => imp = {}
        /\ (k <= Len(e.instances) /\ e.instances[k].t = "inst" /\ pc # "error") => imp # {}

\* ---------------------------------------------------------------- C37
\* the _execute calls made so far for the current kind of the batch, the one
\* of this step last
BatchCalls ==
    LET before == Cardinality(Range(relink_actions)) - Cardinality(pending) IN
    [m \in 1..(before + 1) |-> execLog'[Len(execLog') - (before + 1) + m]]

\* C37: in a ready batch of one kind every distinct action returned by the
\* policy is executed in one _execute call of its own, made for all the
\* records, and only the records, for which the policy returned an equal
\* action; when the last action of the batch was executed every surviving
\* record was in exactly one of the calls
C37_GroupedByAction ==
    [][(pc = "execute" /\ Len(execLog') = Len(execLog) + 1)
           => LET e == execLog'[Len(execLog')]
                  calls == BatchCalls IN
              /\ \A m \in 1..(Len(calls) - 1) : calls[m].action # e.action
              /\ \A i \in 1..Len(Asked) :
                     relink_actions[i] = e.action
                         => Cardinality({k \in 1..Len(e.objects) : e.objects[k] = Asked[i]}) = 1
              /\ \A k \in 1..Len(e.objects) :
                     \E i \in 1..Len(Asked) :
                         Asked[i] = e.objects[k] /\ relink_actions[i] = e.action
              /\ pending = {e.action}
                     => \A i \in 1..Len(Asked) :
                            Cardinality({m \in 1..Len(calls) :
                                            Asked[i] \in Range(calls[m].objects)}) = 1]_vars

\* ---------------------------------------------------------------- C38
\* the targets of the references, weak ones included, of the retained
\* records in S that are retained themselves
AnyTargets(S) ==
    {id \in LoadedIds(objects) \ DiscardedUnknown :
        \E i \in 1..Len(objects) :
            /\ objects[i].id \in S \ DiscardedUnknown
            /\ \E r \in 1..Len(objects[i].refs) : id \in Range(objects[i].refs[r].ids)}

RECURSIVE WithinAny(_, _)
WithinAny(S, n) == IF n = 0 THEN S ELSE WithinAny(S \cup AnyTargets(S), n - 1)

\* some retained record reaches itself through references of any strength
AnyCycle ==
    \E id \in LoadedIds(objects) : id \in WithinAny(AnyTargets({id}), Len(objects))

\* record id has a weak reference to a record in T
WeakRefInto(id, T) ==
    \E r \in 1..Len(ObjOf(objects, id).refs) :
        /\ ObjOf(objects, id).refs[r].weak
        /\ Range(ObjOf(objects, id).refs[r].ids) \cap T # {}

\* C38: weak references do not gate ordering and do not propagate discard.
\* A container whose reference cycles all pass through a weak reference gets
\* no cycle error; a record not yet passed out whose non-weak targets are all
\* done or discarded is in the next ready batch whatever its weak targets
\* are; resolving a batch never fails on a target that is still unknown; and
\* a record is cascade-discarded only for a non-weak non-nullable reference
\* to a discarded record
C38_WeakReferences ==
    /\ []((AnyCycle /\ ~NonWeakCycle) => err # "CycleError")
    /\ [][(pc = "ready" /\ pc' = "resolve")
              => (\A id \in DOMAIN sorter.npred :
                      (sorter.npred[id] >= 0
                          /\ \A t \in LiveTargets(id) : sorter.npred[t] = NODE_DONE)
                      => id \in Range(ready_objects'))]_vars
    /\ [][pc = "resolve"
              => (/\ err' # PkUnknownError
                  /\ \A id \in discarded' \ discarded :
                         BrokenRefs(ObjOf(objects, id)) # {})]_vars

\* the import returned for a container whose only cycle passes through weak
\* references, and a record with a weak reference to a discarded record is
\* materialized
C38_Witness ==
    /\ pc = "done"
    /\ AnyCycle /\ ~NonWeakCycle
    /\ \E id \in DOMAIN instance_map : WeakRefInto(id, discarded)

\* ---------------------------------------------------------------- C39
\* the records a step puts into the discard set
NewlyDiscarded == discarded' \ discarded

\* the _execute call of this step was made for the action the policy
\* returned for record id and gave a discard for it
ChosenChainDiscards(id) ==
    /\ Len(execLog') = Len(execLog) + 1
    /\ LET e == execLog'[Len(execLog')] IN
       /\ \E i \in 1..Len(Asked) : Asked[i] = id /\ relink_actions[i] = e.action
       /\ \E k \in 1..Min(Len(e.objects), Len(e.instances)) :
              e.objects[k] = id /\ e.instances[k] = False

\* C39: a record enters the discard set only at deserialization, when its
\* kind is unregistered and ignore_unknown is set, at reference resolution,
\* when it has a non-weak non-nullable reference to a discarded record, or
\* at the execution of the action chain the policy returned for it, when the
\* chain gave a discard for it
C39_DiscardReasons ==
    [][\A id \in NewlyDiscarded :
           \/ pc = "deserialize" /\ ignore_unknown /\ id.kind \notin exporters
           \/ pc = "resolve" /\ BrokenRefs(ObjOf(objects, id)) # {}
           \/ pc = "execute" /\ ChosenChainDiscards(id)]_vars

====
